---- MODULE Spec2Model ----
(***************************************************************************)
(* State-machine model of the ApplicationVolumeReplication reconciler      *)
(* (controllers/applicationvolumereplication_controller.go): the reconcile *)
(* pass over the subscriptions of one DR intent, the failover sequence of  *)
(* a paused subscription, the create-or-update protocol for ManifestWork   *)
(* bundles and the evaluation of a bundle's status conditions.             *)
(*                                                                         *)
(* Object names are strings; a formatted name ("%s-%s-%s-mw") is modelled  *)
(* as the sequence of its "-"-separated segments, so that two different    *)
(* inputs that format to the same string give the same name here too.      *)
(***************************************************************************)
EXTENDS Integers, Sequences, FiniteSets, TLC

VARIABLES
    subscriptions,      \* hub store: subscription name -> Subscription object
    placementRules,     \* hub store: subscription name -> its PlacementRule
    failoverClusters,   \* avr.Spec.FailoverClusters: name -> cluster ("" = no entry)
    decisions,          \* avr.Status.Decisions as persisted (a partial map)
    manifestWorks,      \* store: <<name, cluster namespace>> -> ManifestWork
    s3Store,            \* backup store: bucket -> list of persisted volumes
    pc,                 \* position of the reconciler: "idle" | "loop"
    idx,                \* processSubscriptions: index of the next list item
    placementDecisions, \* processSubscriptions: decisions aggregated so far
    requeue,            \* processSubscriptions: requeue flag so far
    log,                \* store calls and log lines of the last step of the pass
    current,            \* the subscription that step processed ("" when none)
    result,             \* what the last finished pass returned
    outcomes,           \* what processSubscription returned per item of this pass
    seq,                \* per subscription: steps run since it was last paused
    mwObj,              \* condition evaluator harness: the caller's ManifestWork
    applied,            \* condition evaluator harness: the value returned
    calls               \* create-or-update harness: the calls made so far

vars == <<subscriptions, placementRules, failoverClusters, decisions, manifestWorks,
          s3Store, pc, idx, placementDecisions, requeue, log, current, result, outcomes, seq,
          mwObj, applied, calls>>

engineVars == <<subscriptions, placementRules, failoverClusters, decisions,
                manifestWorks, s3Store, pc, idx, placementDecisions, requeue,
                log, current, result, outcomes, seq>>

(***************************************************************************)
(* Bounds of the model.                                                    *)
(***************************************************************************)
MaxConds == 3       \* longest condition list given to the evaluator
MaxTime == 2        \* timestamps are 1..MaxTime
MaxCalls == 2       \* create-or-update harness: calls per behaviour

(***************************************************************************)
(* Program constants.                                                      *)
(***************************************************************************)
RamenDRLabelName == "ramendr"
LabelSubscriptionPause == "subscription-pause"
MWTypeVRG == "vrg"
MWTypePV == "pv"
maxClusterCount == 2
requiredClusterReplicas == 1

\* The "-"-separated segments of a name.
Segs(str) ==
    CASE str = "app-ns" -> <<"app", "ns">>
      [] str = "ns-x"   -> <<"ns", "x">>
      [] OTHER          -> <<str>>

\* fmt.Sprintf(ManifestWorkNameFormat, name, namespace, mwType)
ManifestWorkName(name, namespace, mwType) ==
    Segs(name) \o Segs(namespace) \o <<mwType, "mw">>

(***************************************************************************)
(* Condition evaluator.                                                    *)
(***************************************************************************)
ConditionTypes == {"Applied", "Degraded", "Available"}
ConditionStatuses == {"True", "False"}
Conditions == [type : ConditionTypes, status : ConditionStatuses, time : 1..MaxTime]

\* All rearrangements of a list.
Rearrangements(s) ==
    {[i \in 1..Len(s) |-> s[p[i]]] : p \in Permutations(1..Len(s))}

\* sort.Slice with less(a, b) = conditions[b].Before(conditions[a]): the list in an
\* order where no element is before (older than) its predecessor.  sort.Slice is not
\* stable, so every such order is a possible outcome.
SortByTimestampAscending(conditions) ==
    {p \in Rearrangements(conditions) :
        \A i \in 1..(Len(p) - 1) : p[i].time <= p[i + 1].time}

SortByTimestamp(conditions) ==
    {p \in Rearrangements(conditions) :
        \A i \in 1..(Len(p) - 1) : ~(p[i].time < p[i + 1].time)}

\* The loop of getMostRecentConditions over the sorted list: keeps elements while
\* their timestamp equals that of element 0, and breaks at the first that differs.
RECURSIVE RecentFrom(_, _)
RecentFrom(sorted, index) ==
    IF index > Len(sorted) THEN <<>>
    ELSE IF sorted[index].time = sorted[1].time
         THEN <<sorted[index]>> \o RecentFrom(sorted, index + 1)
         ELSE <<>>

getMostRecentConditions(sorted) == RecentFrom(sorted, 1)

filterByConditionStatus(conditions, status) ==
    SelectSeq(conditions, LAMBDA c : c.status = status)

\* The loop of IsManifestInAppliedState: the last assignments of applied and degraded.
AppliedOfSorted(sorted) ==
    LET recentConditions == filterByConditionStatus(getMostRecentConditions(sorted), "True")
        isApplied == \E i \in 1..Len(recentConditions) :
                        recentConditions[i].type = "Applied"
        degraded == \E i \in 1..Len(recentConditions) :
                        /\ recentConditions[i].type # "Applied"
                        /\ recentConditions[i].type = "Degraded"
    IN  IF degraded THEN FALSE ELSE isApplied

IsManifestInAppliedState(conditions) ==
    IF Len(conditions) > 0
    THEN AppliedOfSorted(CHOOSE p \in SortByTimestamp(conditions) : TRUE)
    ELSE FALSE

(***************************************************************************)
(* The store and the calls made on it.  Every call of the pass is appended *)
(* to the log together with the log lines that mark a step; f is the call  *)
(* site at which the store (or the backup collaborator) fails while the    *)
(* current subscription is processed, NoFault when none does.              *)
(***************************************************************************)
Subs == {"app1", "app2"}
SubList == <<"app1", "app2">>      \* subscriptionList.Items
AVRName == "avr"
AVRNamespace == "ns"
S3Endpoint == "s3://endpoint"
S3SecretName == "s3secret"
Clusters == {"east", "west", "north"}
DRPair == {"east", "west"}

NoFault == <<"none", "none">>
PausedFaults ==
    {<<"findPV", "get">>, <<"delete", "get">>, <<"delete", "delete">>,
     <<"s3", "download">>, <<"pv", "get">>, <<"pv", "write">>,
     <<"wait", "get">>, <<"unpause", "update">>}
UnpausedFaults ==
    {<<"exists", "get">>, <<"placementRule", "get">>, <<"placement", "resolve">>,
     <<"roles", "get">>, <<"roles", "write">>, <<"vrg", "get">>, <<"vrg", "write">>}
Faults == {NoFault} \cup PausedFaults \cup UnpausedFaults

\* The orders in which a loop over a map with the keys S may visit them.
IterationOrders(S) ==
    {q \in [1..Cardinality(S) -> S] : \A i, j \in 1..Cardinality(S) : i # j => q[i] # q[j]}

Rec(w, s, op, kind, obj, ns, ok) ==
    [w EXCEPT !.log = Append(@, [op |-> op, sub |-> s, kind |-> kind,
                                 obj |-> obj, ns |-> ns, ok |-> ok])]

\* r.Log.Info lines that mark a step of the failover sequence.
Info(w, s, line) == Rec(w, s, "info", "Log", <<line>>, "", TRUE)

Without(f, k) == [x \in DOMAIN f \ {k} |-> f[x]]

GetLabel(labels, k) == IF k \in DOMAIN labels THEN labels[k] ELSE ""

\* strings.EqualFold over the label values of the model.
Lower(str) ==
    CASE str \in {"protected", "Protected", "PROTECTED"} -> "protected"
      [] str \in {"true", "True", "TRUE"}                -> "true"
      [] str \in {"false", "False"}                      -> "false"
      [] OTHER                                           -> str

EqualFold(a, b) == Lower(a) = Lower(b)

\* constructBucketName(namespace, name)
constructBucketName(namespace, name) == Segs(namespace) \o Segs(name)

(***************************************************************************)
(* Manifest generators.                                                    *)
(***************************************************************************)
newManifestWork(name, mcNamespace, labels, manifests) ==
    [name |-> name, namespace |-> mcNamespace, labels |-> labels, manifests |-> manifests]

generateVRGRolesManifestWork(namespace) ==
    newManifestWork(<<"ramendr", "vrg", "roles">>, namespace, <<>>,
        << [kind |-> "ClusterRole",
            name |-> "open-cluster-management:klusterlet-work-sa:agent:volrepgroup-edit"],
           [kind |-> "ClusterRoleBinding",
            name |-> "open-cluster-management:klusterlet-work-sa:agent:volrepgroup-edit"] >>)

generateVRGManifest(name, namespace, s3Endpoint, s3SecretName) ==
    [kind |-> "VolumeReplicationGroup", name |-> name, namespace |-> namespace,
     replicationState |-> "Primary", s3Endpoint |-> s3Endpoint,
     s3SecretName |-> s3SecretName]

generateVRGManifestWork(name, namespace, homeCluster, s3Endpoint, s3SecretName) ==
    newManifestWork(ManifestWorkName(name, namespace, MWTypeVRG), homeCluster,
        [app |-> "VRG"],
        << generateVRGManifest(name, namespace, s3Endpoint, s3SecretName) >>)

generatePVManifest(pvList) ==
    [i \in 1..Len(pvList) |-> [kind |-> "PersistentVolume", name |-> pvList[i]]]

generatePVManifestWork(name, namespace, homeClusterName, pvList) ==
    newManifestWork(ManifestWorkName(name, namespace, MWTypePV), homeClusterName,
        [app |-> "PV"], generatePVManifest(pvList))

(***************************************************************************)
(* Work convergence.                                                       *)
(***************************************************************************)
\* Client.Get by name and cluster namespace, then Create when not found, Update when
\* the stored Spec differs from the desired one, nothing when it is equal.
createOrUpdateManifestWorkAlwaysUpdates(w, s, mw, managedClusternamespace, site, f) ==
    LET key == <<mw.name, managedClusternamespace>>
        got(ok) == Rec(w, s, "get", "ManifestWork", mw.name, managedClusternamespace, ok)
    IN  IF f = <<site, "get">> THEN [w |-> got(FALSE), err |-> TRUE]
        ELSE IF key \notin DOMAIN w.mw
        THEN [w |-> [Rec(got(TRUE), s, "create", "ManifestWork", mw.name,
                         managedClusternamespace, TRUE)
                       EXCEPT !.mw = (key :> [manifests |-> mw.manifests,
                                              labels |-> mw.labels,
                                              conditions |-> <<>>]) @@ w.mw],
              err |-> FALSE]
        ELSE [w |-> [Rec(got(TRUE), s, "update", "ManifestWork", mw.name,
                         managedClusternamespace, TRUE)
                       EXCEPT !.mw[key].manifests = mw.manifests],
              err |-> FALSE]

\* The same with every error of the get treated as not-found.
createOrUpdateManifestWorkCreatesOnError(w, s, mw, managedClusternamespace, site, f) ==
    LET key == <<mw.name, managedClusternamespace>>
        got(ok) == Rec(w, s, "get", "ManifestWork", mw.name, managedClusternamespace, ok)
        wrote(op, ok) == Rec(got(f # <<site, "get">>), s, op, "ManifestWork", mw.name,
                             managedClusternamespace, ok)
    IN  IF key \notin DOMAIN w.mw \/ f = <<site, "get">>
        THEN IF f = <<site, "write">>
             THEN [w |-> wrote("create", FALSE), err |-> TRUE]
             ELSE [w |-> [wrote("create", TRUE)
                            EXCEPT !.mw = (key :> [manifests |-> mw.manifests,
                                                   labels |-> mw.labels,
                                                   conditions |-> <<>>]) @@ w.mw],
                   err |-> f = <<site, "get">>]
        ELSE IF w.mw[key].manifests # mw.manifests
        THEN IF f = <<site, "write">>
             THEN [w |-> wrote("update", FALSE), err |-> TRUE]
             ELSE [w |-> [wrote("update", TRUE)
                            EXCEPT !.mw[key].manifests = mw.manifests],
                   err |-> FALSE]
        ELSE [w |-> got(TRUE), err |-> FALSE]

createOrUpdateManifestWork(w, s, mw, managedClusternamespace, site, f) ==
    LET key == <<mw.name, managedClusternamespace>>
        got(ok) == Rec(w, s, "get", "ManifestWork", mw.name, managedClusternamespace, ok)
        wrote(op, ok) == Rec(got(TRUE), s, op, "ManifestWork", mw.name,
                             managedClusternamespace, ok)
    IN  IF f = <<site, "get">> THEN [w |-> got(FALSE), err |-> TRUE]
        ELSE IF key \notin DOMAIN w.mw
        THEN IF f = <<site, "write">>
             THEN [w |-> wrote("create", FALSE), err |-> TRUE]
             ELSE [w |-> [wrote("create", TRUE)
                            EXCEPT !.mw = (key :> [manifests |-> mw.manifests,
                                                   labels |-> mw.labels,
                                                   conditions |-> <<>>]) @@ w.mw],
                   err |-> FALSE]
        ELSE IF w.mw[key].manifests # mw.manifests
        THEN IF f = <<site, "write">>
             THEN [w |-> wrote("update", FALSE), err |-> TRUE]
             ELSE [w |-> [wrote("update", TRUE)
                            EXCEPT !.mw[key].manifests = mw.manifests],
                   err |-> FALSE]
        ELSE [w |-> got(TRUE), err |-> FALSE]

createOrUpdateVRGRolesManifestWork(w, s, namespace, f) ==
    createOrUpdateManifestWork(w, s, generateVRGRolesManifestWork(namespace),
                               namespace, "roles", f)

createOrUpdateVRGManifestWork(w, s, name, namespace, homeCluster, s3Endpoint, s3SecretName, f) ==
    createOrUpdateManifestWork(w, s,
        generateVRGManifestWork(name, namespace, homeCluster, s3Endpoint, s3SecretName),
        homeCluster, "vrg", f)

createOrUpdatePVsManifestWork(w, name, namespace, homeClusterName, pvList, f) ==
    createOrUpdateManifestWork(w, name,
        generatePVManifestWork(name, namespace, homeClusterName, pvList),
        homeClusterName, "pv", f)

findManifestWork(w, subscription, homeCluster, mwType, site, f) ==
    IF homeCluster # ""
    THEN LET mwName == ManifestWorkName(subscription.name, subscription.namespace, mwType)
             key == <<mwName, homeCluster>>
             got(ok) == Rec(w, subscription.name, "get", "ManifestWork", mwName,
                            homeCluster, ok)
         IN  IF f = <<site, "get">>
             THEN [w |-> got(FALSE), err |-> TRUE, found |-> FALSE, key |-> key]
             ELSE [w |-> got(TRUE), err |-> FALSE, found |-> key \in DOMAIN w.mw,
                   key |-> key]
    ELSE [w |-> w, err |-> FALSE, found |-> FALSE, key |-> <<>>]

(***************************************************************************)
(* Failover sequencer.                                                     *)
(***************************************************************************)
\* The same test with the label values compared exactly.
isSubsriptionPausedForDRExact(labels) ==
    /\ GetLabel(labels, RamenDRLabelName) = "protected"
    /\ GetLabel(labels, LabelSubscriptionPause) = "true"

isSubsriptionPausedForDR(labels) ==
    /\ GetLabel(labels, RamenDRLabelName) # ""
    /\ EqualFold(GetLabel(labels, RamenDRLabelName), "protected")
    /\ GetLabel(labels, LabelSubscriptionPause) # ""
    /\ EqualFold(GetLabel(labels, LabelSubscriptionPause), "true")

\* A target derived when the override names none.
findNextHomeClusterDefaults(avr, subscription) ==
    IF avr.Spec.FailoverClusters[subscription.name] = "" THEN "east"
    ELSE avr.Spec.FailoverClusters[subscription.name]

findNextHomeCluster(avr, subscription) == avr.Spec.FailoverClusters[subscription.name]

\* Deletes the vrg ManifestWork on the home cluster of the recorded decision, if any.
deleteExistingManfiestWork(w, avr, subscription, f) ==
    LET w0 == Info(w, subscription.name, "Try to delete ManifestWork")
    IN  IF subscription.name \in DOMAIN avr.Status.Decisions
        THEN LET d == avr.Status.Decisions[subscription.name]
                 vrgMWName == ManifestWorkName(subscription.name, subscription.namespace,
                                               MWTypeVRG)
                 key == <<vrgMWName, d.HomeCluster>>
                 got(ok) == Rec(w0, subscription.name, "get", "ManifestWork", vrgMWName,
                                d.HomeCluster, ok)
                 deleted(ok) == Rec(got(TRUE), subscription.name, "delete", "ManifestWork",
                                    vrgMWName, d.HomeCluster, ok)
             IN  IF f = <<"delete", "get">> THEN [w |-> got(FALSE), err |-> TRUE]
                 ELSE IF key \notin DOMAIN w.mw THEN [w |-> got(TRUE), err |-> FALSE]
                 ELSE IF f = <<"delete", "delete">>
                      THEN [w |-> deleted(FALSE), err |-> TRUE]
                      ELSE [w |-> [deleted(TRUE) EXCEPT !.mw = Without(w.mw, key)],
                            err |-> FALSE]
        ELSE [w |-> w0, err |-> FALSE]

\* r.S3.DownloadPVs for the bucket of the subscription.
listPVsFromS3Store(w, avr, subscription, f) ==
    LET s3Bucket == constructBucketName(subscription.namespace, subscription.name)
        called(ok) == Rec(w, subscription.name, "download", "S3", s3Bucket, "", ok)
    IN  IF f = <<"s3", "download">>
        THEN [w |-> called(FALSE), err |-> TRUE, pvList |-> <<>>]
        ELSE [w |-> called(TRUE), err |-> FALSE, pvList |-> s3Store[s3Bucket]]

\* The restore step with no bundle issued.
restorePVFromBackupSkipped(w, avr, subscription, homeCluster, f) ==
    [w |-> Info(w, subscription.name, "Restoring PVs to new managed cluster"),
     err |-> FALSE]

\* The restore step with a bundle issued for an empty list too.
restorePVFromBackupAlwaysCreates(w, avr, subscription, homeCluster, f) ==
    LET listed(got) ==
            IF got.err THEN [w |-> got.w, err |-> TRUE]
            ELSE createOrUpdatePVsManifestWork(got.w, subscription.name,
                     subscription.namespace, homeCluster, got.pvList, f)
    IN  listed(listPVsFromS3Store(
                   Info(w, subscription.name, "Restoring PVs to new managed cluster"),
                   avr, subscription, f))

restorePVFromBackup(w, avr, subscription, homeCluster, f) ==
    LET listed(got) ==
            IF got.err THEN [w |-> got.w, err |-> TRUE]
            ELSE IF Len(got.pvList) = 0 THEN [w |-> got.w, err |-> FALSE]
            ELSE createOrUpdatePVsManifestWork(got.w, subscription.name,
                     subscription.namespace, homeCluster, got.pvList, f)
    IN  listed(listPVsFromS3Store(
                   Info(w, subscription.name, "Restoring PVs to new managed cluster"),
                   avr, subscription, f))

\* The same sequence with the restore issued before the stale bundle is deleted.
\* Each step is written as a function of the result of the call before it.
processPausedSubscriptionRestoreFirst(w, avr, subscription, f) ==
    LET newHomeCluster == findNextHomeCluster(avr, subscription)
        none == [newHomeCluster |-> "", pvFound |-> FALSE, pvKey |-> <<>>]
        deleted(del) ==
            IF del.err THEN [w |-> del.w, err |-> TRUE] @@ none
            ELSE [w |-> del.w, err |-> FALSE, newHomeCluster |-> newHomeCluster,
                  pvFound |-> FALSE, pvKey |-> <<>>]
        restored(res) ==
            IF res.err THEN [w |-> res.w, err |-> TRUE] @@ none
            ELSE deleted(deleteExistingManfiestWork(res.w, avr, subscription, f))
        looked(pvMW) ==
            IF pvMW.err THEN [w |-> pvMW.w, err |-> TRUE] @@ none
            ELSE IF pvMW.found
            THEN [w |-> pvMW.w, err |-> FALSE, newHomeCluster |-> newHomeCluster,
                  pvFound |-> TRUE, pvKey |-> pvMW.key]
            ELSE restored(restorePVFromBackup(pvMW.w, avr, subscription,
                                              newHomeCluster, f))
    IN  IF newHomeCluster = ""
        THEN [w |-> Info(w, subscription.name, "Processing paused subscription"),
              err |-> TRUE] @@ none
        ELSE looked(findManifestWork(
                        Info(w, subscription.name, "Processing paused subscription"),
                        subscription, newHomeCluster, MWTypePV, "findPV", f))

\* The same with the deletion step run before the restore bundle is looked at.
processPausedSubscriptionDeletesAlways(w, avr, subscription, f) ==
    LET newHomeCluster == findNextHomeCluster(avr, subscription)
        none == [newHomeCluster |-> "", pvFound |-> FALSE, pvKey |-> <<>>]
        restored(res) ==
            IF res.err THEN [w |-> res.w, err |-> TRUE] @@ none
            ELSE [w |-> res.w, err |-> FALSE, newHomeCluster |-> newHomeCluster,
                  pvFound |-> FALSE, pvKey |-> <<>>]
        deleted(del, found, key) ==
            IF del.err THEN [w |-> del.w, err |-> TRUE] @@ none
            ELSE IF found
            THEN [w |-> del.w, err |-> FALSE, newHomeCluster |-> newHomeCluster,
                  pvFound |-> TRUE, pvKey |-> key]
            ELSE restored(restorePVFromBackup(del.w, avr, subscription,
                                              newHomeCluster, f))
        looked(pvMW) ==
            IF pvMW.err THEN [w |-> pvMW.w, err |-> TRUE] @@ none
            ELSE deleted(deleteExistingManfiestWork(pvMW.w, avr, subscription, f),
                         pvMW.found, pvMW.key)
    IN  IF newHomeCluster = ""
        THEN [w |-> Info(w, subscription.name, "Processing paused subscription"),
              err |-> TRUE] @@ none
        ELSE looked(findManifestWork(
                        Info(w, subscription.name, "Processing paused subscription"),
                        subscription, newHomeCluster, MWTypePV, "findPV", f))

processPausedSubscription(w, avr, subscription, f) ==
    LET newHomeCluster == findNextHomeCluster(avr, subscription)
        none == [newHomeCluster |-> "", pvFound |-> FALSE, pvKey |-> <<>>]
        restored(res) ==
            IF res.err THEN [w |-> res.w, err |-> TRUE] @@ none
            ELSE [w |-> res.w, err |-> FALSE, newHomeCluster |-> newHomeCluster,
                  pvFound |-> FALSE, pvKey |-> <<>>]
        deleted(del) ==
            IF del.err THEN [w |-> del.w, err |-> TRUE] @@ none
            ELSE restored(restorePVFromBackup(del.w, avr, subscription,
                                              newHomeCluster, f))
        looked(pvMW) ==
            IF pvMW.err THEN [w |-> pvMW.w, err |-> TRUE] @@ none
            ELSE IF pvMW.found
            THEN [w |-> pvMW.w, err |-> FALSE, newHomeCluster |-> newHomeCluster,
                  pvFound |-> TRUE, pvKey |-> pvMW.key]
            ELSE deleted(deleteExistingManfiestWork(pvMW.w, avr, subscription, f))
    IN  IF newHomeCluster = ""
        THEN [w |-> Info(w, subscription.name, "Processing paused subscription"),
              err |-> TRUE] @@ none
        ELSE looked(findManifestWork(
                        Info(w, subscription.name, "Processing paused subscription"),
                        subscription, newHomeCluster, MWTypePV, "findPV", f))

\* TRUE (wait) when the lookup fails or the restore bundle is there and not applied.
waitForManifestNoCheck(w, subscription, clusterName, pvFound, pvKey, f) ==
    [w |-> w, wait |-> FALSE]

\* A wait step that never lets the sequence go on.
waitForManifestAlways(w, subscription, clusterName, pvFound, pvKey, f) ==
    [w |-> w, wait |-> TRUE]

waitForManifest(w, subscription, clusterName, pvFound, pvKey, f) ==
    LET evaluated(w1, isApplied) ==
            IF ~isApplied
            THEN [w |-> Info(w1, subscription.name, "ManifestWork has not been applied yet"),
                  wait |-> TRUE]
            ELSE [w |-> w1, wait |-> FALSE]
        found(pvMW, isApplied) ==
            evaluated(Rec(pvMW.w, subscription.name, "eval", "ManifestWork",
                          pvMW.key[1], pvMW.key[2], isApplied), isApplied)
        looked(pvMW) ==
            IF pvMW.err THEN [w |-> pvMW.w, wait |-> TRUE]
            ELSE IF pvMW.found
            THEN found(pvMW, IsManifestInAppliedState(pvMW.w.mw[pvMW.key].conditions))
            ELSE [w |-> pvMW.w, wait |-> FALSE]
    IN  looked(IF ~pvFound
               THEN findManifestWork(w, subscription, clusterName, MWTypePV, "wait", f)
               ELSE [w |-> w, err |-> FALSE, found |-> TRUE, key |-> pvKey])

\* An unpause that drops the DR-state label.
unpauseSubscriptionClearsDRLabel(w, subscription, f) ==
    LET labels == [k \in (DOMAIN subscription.labels \cup {LabelSubscriptionPause})
                          \ {RamenDRLabelName} |->
                      IF k = LabelSubscriptionPause THEN "false"
                      ELSE subscription.labels[k]]
        called(ok) == Rec(w, subscription.name, "update", "Subscription",
                          Segs(subscription.name), subscription.namespace, ok)
    IN  IF f = <<"unpause", "update">> THEN [w |-> called(FALSE), err |-> TRUE]
        ELSE [w |-> [called(TRUE) EXCEPT !.subs[subscription.name].labels = labels],
              err |-> FALSE]

\* Sets the pause label to "false" and updates the subscription in the store.
unpauseSubscription(w, subscription, f) ==
    LET labels == [k \in DOMAIN subscription.labels \cup {LabelSubscriptionPause} |->
                      IF k = LabelSubscriptionPause THEN "false"
                      ELSE subscription.labels[k]]
        called(ok) == Rec(w, subscription.name, "update", "Subscription",
                          Segs(subscription.name), subscription.namespace, ok)
    IN  IF f = <<"unpause", "update">> THEN [w |-> called(FALSE), err |-> TRUE]
        ELSE [w |-> [called(TRUE) EXCEPT !.subs[subscription.name].labels = labels],
              err |-> FALSE]

(***************************************************************************)
(* Placement selection and the needs-convergence path.                     *)
(***************************************************************************)
\* utils.PlaceByGenericPlacmentFields, then the replica, filterClusters and pair-size
\* checks.
getManagedClustersUsingPlacementRuleAnyCount(w, s, placementRule, maxCount, f) ==
    LET called(ok) == Rec(w, s, "resolve", "PlacementRule", Segs(placementRule.name), "", ok)
    IN  IF f = <<"placement", "resolve">>
        THEN [w |-> called(FALSE), err |-> TRUE, clmap |-> {}]
        ELSE IF Cardinality(placementRule.resolved) < maxCount
        THEN [w |-> called(TRUE), err |-> TRUE, clmap |-> {}]
        ELSE [w |-> called(TRUE), err |-> FALSE, clmap |-> placementRule.resolved]

getManagedClustersUsingPlacementRule(w, s, placementRule, maxCount, f) ==
    LET called(ok) == Rec(w, s, "resolve", "PlacementRule", Segs(placementRule.name), "", ok)
        clmap == placementRule.resolved
    IN  IF f = <<"placement", "resolve">>
        THEN [w |-> called(FALSE), err |-> TRUE, clmap |-> {}]
        ELSE IF placementRule.replicas # 0 /\ placementRule.replicas # requiredClusterReplicas
        THEN [w |-> called(TRUE), err |-> TRUE, clmap |-> {}]
        ELSE IF Cardinality(clmap) = 0          \* filterClusters
        THEN [w |-> called(TRUE), err |-> TRUE, clmap |-> {}]
        ELSE IF Cardinality(clmap) # maxCount
        THEN [w |-> called(TRUE), err |-> TRUE, clmap |-> {}]
        ELSE [w |-> called(TRUE), err |-> FALSE, clmap |-> clmap]

\* subStatuses[name] != nil
HasStatus(subStatuses, name) ==
    name \in DOMAIN subStatuses /\ subStatuses[name] # "nilptr"

\* order is the order in which the loop over clmap visits the clusters.
extractHomeClusterAndPeerCluster(w, subscription, placementRule, f, order) ==
    LET clusters == order
        d1 == clusters[1]
        d2 == clusters[2]
        resolved(got) ==
            IF got.err THEN [w |-> got.w, err |-> TRUE, home |-> "", peer |-> ""]
            ELSE IF HasStatus(subscription.statuses, d1)
            THEN [w |-> got.w, err |-> FALSE, home |-> d1, peer |-> d2]
            ELSE IF HasStatus(subscription.statuses, d2)
            THEN [w |-> got.w, err |-> FALSE, home |-> d2, peer |-> d1]
            ELSE [w |-> got.w, err |-> TRUE, home |-> "", peer |-> ""]
    IN  IF subscription.statusesNil
        THEN [w |-> w, err |-> TRUE, home |-> "", peer |-> ""]
        ELSE resolved(getManagedClustersUsingPlacementRule(w, subscription.name,
                          placementRule, maxClusterCount, f))

selectPlacementDecision(w, subscription, f, order) ==
    LET fail(x) == [w |-> x, err |-> TRUE, home |-> "", peer |-> ""]
        called(ok) == Rec(w, subscription.name, "get", "PlacementRule",
                          Segs(placementRules[subscription.name].name),
                          subscription.namespace, ok)
    IN  IF subscription.phase # "Propagated" \/ subscription.statusesNil THEN fail(w)
        ELSE IF subscription.placement \in {"nil", "noref", "local"} THEN fail(w)
        ELSE IF f = <<"placementRule", "get">> THEN fail(called(FALSE))
        ELSE extractHomeClusterAndPeerCluster(called(TRUE), subscription,
                 placementRules[subscription.name], f, order)

\* The same path with the role bundle left out.
processUnpausedSubscriptionNoRoles(w, avr, subscription, f, order) ==
    LET none == [HomeCluster |-> "", PeerCluster |-> ""]
        withVrg(sel, vrg) ==
            IF vrg.err THEN [w |-> vrg.w, err |-> TRUE, decision |-> none]
            ELSE [w |-> vrg.w, err |-> FALSE,
                  decision |-> [HomeCluster |-> sel.home, PeerCluster |-> sel.peer]]
        selected(sel) ==
            IF sel.err THEN [w |-> sel.w, err |-> TRUE, decision |-> none]
            ELSE withVrg(sel, createOrUpdateVRGManifestWork(sel.w, subscription.name,
                                  subscription.name, subscription.namespace, sel.home,
                                  avr.Spec.S3Endpoint, avr.Spec.S3SecretName, f))
    IN  selected(selectPlacementDecision(w, subscription, f, order))

\* The same path with the result of the two converge steps not looked at.
processUnpausedSubscriptionIgnoresErrors(w, avr, subscription, f, order) ==
    LET none == [HomeCluster |-> "", PeerCluster |-> ""]
        withVrg(sel, vrg) ==
            [w |-> vrg.w, err |-> FALSE,
             decision |-> [HomeCluster |-> sel.home, PeerCluster |-> sel.peer]]
        withRoles(sel, roles) ==
            withVrg(sel, createOrUpdateVRGManifestWork(roles.w, subscription.name,
                             subscription.name, subscription.namespace, sel.home,
                             avr.Spec.S3Endpoint, avr.Spec.S3SecretName, f))
        selected(sel) ==
            IF sel.err THEN [w |-> sel.w, err |-> TRUE, decision |-> none]
            ELSE withRoles(sel, createOrUpdateVRGRolesManifestWork(sel.w,
                                    subscription.name, sel.home, f))
    IN  selected(selectPlacementDecision(w, subscription, f, order))

processUnpausedSubscription(w, avr, subscription, f, order) ==
    LET none == [HomeCluster |-> "", PeerCluster |-> ""]
        withVrg(sel, vrg) ==
            IF vrg.err THEN [w |-> vrg.w, err |-> TRUE, decision |-> none]
            ELSE [w |-> vrg.w, err |-> FALSE,
                  decision |-> [HomeCluster |-> sel.home, PeerCluster |-> sel.peer]]
        withRoles(sel, roles) ==
            IF roles.err THEN [w |-> roles.w, err |-> TRUE, decision |-> none]
            ELSE withVrg(sel, createOrUpdateVRGManifestWork(roles.w, subscription.name,
                                  subscription.name, subscription.namespace, sel.home,
                                  avr.Spec.S3Endpoint, avr.Spec.S3SecretName, f))
        selected(sel) ==
            IF sel.err THEN [w |-> sel.w, err |-> TRUE, decision |-> none]
            ELSE withRoles(sel, createOrUpdateVRGRolesManifestWork(sel.w,
                                    subscription.name, sel.home, f))
    IN  selected(selectPlacementDecision(w, subscription, f, order))

\* An existence test that never finds the bundle.
vrgManifestWorkAlreadyExistsNever(w, avr, subscription, f) ==
    LET looked(mw) == [w |-> mw.w, err |-> mw.err, exists |-> FALSE]
    IN  IF subscription.name \in DOMAIN avr.Status.Decisions
        THEN looked(findManifestWork(w, subscription,
                        avr.Status.Decisions[subscription.name].HomeCluster,
                        MWTypeVRG, "exists", f))
        ELSE [w |-> w, err |-> FALSE, exists |-> FALSE]

vrgManifestWorkAlreadyExists(w, avr, subscription, f) ==
    LET looked(mw) == [w |-> mw.w, err |-> mw.err, exists |-> ~mw.err /\ mw.found]
    IN  IF subscription.name \in DOMAIN avr.Status.Decisions
        THEN looked(findManifestWork(w, subscription,
                        avr.Status.Decisions[subscription.name].HomeCluster,
                        MWTypeVRG, "exists", f))
        ELSE [w |-> w, err |-> FALSE, exists |-> FALSE]

(***************************************************************************)
(* processSubscription: what one item of the list yields.                  *)
(*   kind = "Requeue"   (nil, true)                                        *)
(*   kind = "Converged" (nil, false)                                       *)
(*   kind = "Decision"  (&placementDecision, false)                        *)
(***************************************************************************)
Outcome(w, kind, decision) == [w |-> w, kind |-> kind, decision |-> decision]
NoDecision == [HomeCluster |-> "", PeerCluster |-> ""]

\* The same with a successful unpause reported as already converged.
processSubscriptionConvergedAfterUnpause(w, avr, subscription, f, order) ==
    LET unpaused(un) ==
            IF un.err THEN Outcome(un.w, "Requeue", NoDecision)
            ELSE Outcome(un.w, "Converged", NoDecision)
        waited(wt) ==
            IF wt.wait THEN Outcome(wt.w, "Requeue", NoDecision)
            ELSE unpaused(unpauseSubscription(
                              Info(wt.w, subscription.name, "Unpausing subscription"),
                              subscription, f))
        paused(p) ==
            IF p.err THEN Outcome(p.w, "Requeue", NoDecision)
            ELSE waited(waitForManifest(p.w, subscription, p.newHomeCluster,
                                        p.pvFound, p.pvKey, f))
        decided(un) ==
            IF un.err THEN Outcome(un.w, "Requeue", NoDecision)
            ELSE Outcome(un.w, "Decision", un.decision)
        checked(ex) ==
            IF ex.err THEN Outcome(ex.w, "Requeue", NoDecision)
            ELSE IF ex.exists THEN Outcome(ex.w, "Converged", NoDecision)
            ELSE decided(processUnpausedSubscription(ex.w, avr, subscription, f, order))
    IN  IF isSubsriptionPausedForDR(subscription.labels)
        THEN paused(processPausedSubscription(w, avr, subscription, f))
        ELSE checked(vrgManifestWorkAlreadyExists(w, avr, subscription, f))

\* The same with the unpause issued whatever waitForManifest returns.
processSubscriptionUnpausesAnyway(w, avr, subscription, f, order) ==
    LET unpaused(un) == Outcome(un.w, "Requeue", NoDecision)
        waited(wt) ==
            unpaused(unpauseSubscription(
                         Info(wt.w, subscription.name, "Unpausing subscription"),
                         subscription, f))
        paused(p) ==
            IF p.err THEN Outcome(p.w, "Requeue", NoDecision)
            ELSE waited(waitForManifest(p.w, subscription, p.newHomeCluster,
                                        p.pvFound, p.pvKey, f))
        decided(un) ==
            IF un.err THEN Outcome(un.w, "Requeue", NoDecision)
            ELSE Outcome(un.w, "Decision", un.decision)
        checked(ex) ==
            IF ex.err THEN Outcome(ex.w, "Requeue", NoDecision)
            ELSE IF ex.exists THEN Outcome(ex.w, "Converged", NoDecision)
            ELSE decided(processUnpausedSubscription(ex.w, avr, subscription, f, order))
    IN  IF isSubsriptionPausedForDR(subscription.labels)
        THEN paused(processPausedSubscription(w, avr, subscription, f))
        ELSE checked(vrgManifestWorkAlreadyExists(w, avr, subscription, f))

processSubscription(w, avr, subscription, f, order) ==
    LET unpaused(un) == Outcome(un.w, "Requeue", NoDecision)
        waited(wt) ==
            IF wt.wait THEN Outcome(wt.w, "Requeue", NoDecision)
            ELSE unpaused(unpauseSubscription(
                              Info(wt.w, subscription.name, "Unpausing subscription"),
                              subscription, f))
        paused(p) ==
            IF p.err THEN Outcome(p.w, "Requeue", NoDecision)
            ELSE waited(waitForManifest(p.w, subscription, p.newHomeCluster,
                                        p.pvFound, p.pvKey, f))
        decided(un) ==
            IF un.err THEN Outcome(un.w, "Requeue", NoDecision)
            ELSE Outcome(un.w, "Decision", un.decision)
        checked(ex) ==
            IF ex.err THEN Outcome(ex.w, "Requeue", NoDecision)
            ELSE IF ex.exists THEN Outcome(ex.w, "Converged", NoDecision)
            ELSE decided(processUnpausedSubscription(ex.w, avr, subscription, f, order))
    IN  IF isSubsriptionPausedForDR(subscription.labels)
        THEN paused(processPausedSubscription(w, avr, subscription, f))
        ELSE checked(vrgManifestWorkAlreadyExists(w, avr, subscription, f))

\* One iteration of the loop of processSubscriptions over item number st.idx.
processSubscriptionsItemBreaks(st, avr, subscription, f, order) ==
    LET processed(out) ==
            IF out.kind = "Requeue"
            THEN [w |-> out.w, idx |-> Len(SubList) + 1,
                  placementDecisions |-> st.placementDecisions, requeue |-> TRUE,
                  kind |-> out.kind, decision |-> out.decision]
            ELSE IF out.kind = "Decision"
            THEN [w |-> out.w, idx |-> st.idx + 1,
                  placementDecisions |->
                      (subscription.name :> out.decision) @@ st.placementDecisions,
                  requeue |-> st.requeue, kind |-> out.kind, decision |-> out.decision]
            ELSE [w |-> out.w, idx |-> st.idx + 1,
                  placementDecisions |-> st.placementDecisions,
                  requeue |-> st.requeue, kind |-> out.kind, decision |-> out.decision]
    IN  IF subscription.phase = "Subscribed" \/ subscription.placement = "local"
        THEN [st EXCEPT !.idx = @ + 1, !.kind = "Skip"]
        ELSE processed(processSubscription(st.w, avr, subscription, f, order))

processSubscriptionsItem(st, avr, subscription, f, order) ==
    LET processed(out) ==
            IF out.kind = "Requeue"
            THEN [w |-> out.w, idx |-> st.idx + 1,
                  placementDecisions |-> st.placementDecisions, requeue |-> TRUE,
                  kind |-> out.kind, decision |-> out.decision]
            ELSE IF out.kind = "Decision"
            THEN [w |-> out.w, idx |-> st.idx + 1,
                  placementDecisions |->
                      (subscription.name :> out.decision) @@ st.placementDecisions,
                  requeue |-> st.requeue, kind |-> out.kind, decision |-> out.decision]
            ELSE [w |-> out.w, idx |-> st.idx + 1,
                  placementDecisions |-> st.placementDecisions,
                  requeue |-> st.requeue, kind |-> out.kind, decision |-> out.decision]
    IN  IF subscription.phase = "Subscribed" \/ subscription.placement = "local"
        THEN [st EXCEPT !.idx = @ + 1, !.kind = "Skip"]
        ELSE processed(processSubscription(st.w, avr, subscription, f, order))

\* A status write that adds the new decisions to the stored ones.
updateAVRStatusMerges(status, newDecisions, fails) ==
    IF fails THEN [decisions |-> status, err |-> TRUE]
    ELSE [decisions |-> newDecisions @@ status, err |-> FALSE]

\* A status write that stores the new decisions and then reports a failure.
updateAVRStatusPartial(status, newDecisions, fails) ==
    [decisions |-> newDecisions, err |-> fails]

\* avr.Status = {Decisions: placementDecisions}; Client.Status().Update
updateAVRStatus(status, newDecisions, fails) ==
    IF fails THEN [decisions |-> status, err |-> TRUE]
    ELSE [decisions |-> newDecisions, err |-> FALSE]

(***************************************************************************)
(* The reconcile pass.  BeginPass is Reconcile up to the call of           *)
(* processSubscriptions, ProcessNext one iteration of its loop, EndPass    *)
(* the rest of Reconcile.  A pass runs to its end before anything else     *)
(* happens: passes over one intent are serialized by the caller.           *)
(***************************************************************************)
EmptyMap == [x \in {} |-> NoDecision]
NoResult == [done |-> FALSE, requeue |-> FALSE, err |-> FALSE, wrote |-> FALSE]
NoSeq == "none"

AVR ==
    [name |-> AVRName, namespace |-> AVRNamespace,
     Spec |-> [FailoverClusters |-> failoverClusters, S3Endpoint |-> S3Endpoint,
               S3SecretName |-> S3SecretName],
     Status |-> [Decisions |-> decisions]]

harnessIdle == UNCHANGED <<mwObj, applied, calls>>

BeginPass ==
    /\ pc = "idle"
    /\ \E f \in {NoFault, <<"avr", "get">>, <<"subscriptions", "list">>} :
         LET got == <<[op |-> "get", sub |-> "", kind |-> "AVR", obj |-> <<AVRName>>,
                       ns |-> AVRNamespace, ok |-> f # <<"avr", "get">>]>>
             listed == Append(got, [op |-> "list", sub |-> "", kind |-> "Subscription",
                                    obj |-> <<>>, ns |-> AVRNamespace,
                                    ok |-> f # <<"subscriptions", "list">>])
         IN  IF f = <<"avr", "get">>
             THEN /\ log' = got
                  /\ result' = [done |-> TRUE, requeue |-> FALSE, err |-> TRUE, wrote |-> FALSE]
                  /\ UNCHANGED pc
             ELSE IF f = <<"subscriptions", "list">>
             THEN /\ log' = listed
                  /\ result' = [done |-> TRUE, requeue |-> TRUE, err |-> FALSE, wrote |-> FALSE]
                  /\ UNCHANGED pc
             ELSE /\ log' = listed
                  /\ result' = NoResult
                  /\ pc' = "loop"
    /\ idx' = 1
    /\ placementDecisions' = EmptyMap
    /\ requeue' = FALSE
    /\ outcomes' = EmptyMap
    /\ current' = ""
    /\ UNCHANGED <<subscriptions, placementRules, failoverClusters, decisions,
                   manifestWorks, s3Store, seq>>
    /\ harnessIdle

\* How far the failover sequence of a subscription has come since it was paused:
\* "deleted" once the deletion step has run, "restored" once a restore bundle was
\* issued after that, "evaluated" once its applied state was evaluated after that.
IsDeleteStep(e) == e.op = "info" /\ e.obj = <<"Try to delete ManifestWork">>
IsRestoreIssue(e) ==
    /\ e.op \in {"create", "update"}
    /\ e.kind = "ManifestWork"
    /\ e.obj[Len(e.obj) - 1] = MWTypePV
    /\ e.ok
IsEvaluation(e) == e.op = "eval"
IsUnpause(e) == e.op = "update" /\ e.kind = "Subscription"

\* A call that returned an error (the ok of an evaluation is its result).
FailedCall(e) == ~e.ok /\ e.op # "eval"

RECURSIVE SeqSteps(_, _)
SeqSteps(old, entries) ==
    IF entries = <<>> THEN old
    ELSE LET e == Head(entries)
             new == IF old = "none" /\ IsDeleteStep(e) THEN "deleted"
                    ELSE IF old = "deleted" /\ IsRestoreIssue(e) THEN "restored"
                    ELSE IF old = "restored" /\ IsEvaluation(e) THEN "evaluated"
                    ELSE old
         IN  SeqSteps(new, Tail(entries))

\* The call sites the processing of a subscription can reach.
FaultsFor(subscription) ==
    {NoFault} \cup (IF isSubsriptionPausedForDR(subscription.labels)
                    THEN PausedFaults ELSE UnpausedFaults)

\* The branch of the loop body an item takes.
PathOf(subscription) ==
    IF subscription.phase = "Subscribed" \/ subscription.placement = "local" THEN "skip"
    ELSE IF isSubsriptionPausedForDR(subscription.labels) THEN "paused"
    ELSE "unpaused"

ProcessNext ==
    /\ pc = "loop"
    /\ idx <= Len(SubList)
    /\ \E f \in FaultsFor(subscriptions[SubList[idx]]),
          order \in IterationOrders(placementRules[SubList[idx]].resolved) :
         \E st \in {processSubscriptionsItem(
                       [w |-> [mw |-> manifestWorks, subs |-> subscriptions, log |-> <<>>],
                        idx |-> idx, placementDecisions |-> placementDecisions,
                        requeue |-> requeue, kind |-> "", decision |-> NoDecision],
                       AVR, subscriptions[SubList[idx]], f, order)} :
             /\ manifestWorks' = st.w.mw
             /\ subscriptions' = st.w.subs
             /\ log' = st.w.log
             /\ idx' = st.idx
             /\ placementDecisions' = st.placementDecisions
             /\ requeue' = st.requeue
             /\ outcomes' = (SubList[idx] :>
                                [kind |-> st.kind, decision |-> st.decision,
                                 path |-> PathOf(subscriptions[SubList[idx]]),
                                 failed |-> \E i \in 1..Len(st.w.log) :
                                               FailedCall(st.w.log[i])]) @@ outcomes
             /\ current' = SubList[idx]
             /\ seq' = [seq EXCEPT ![SubList[idx]] = SeqSteps(@, st.w.log)]
    /\ UNCHANGED <<placementRules, failoverClusters, decisions, s3Store, pc, result>>
    /\ harnessIdle

EndPass ==
    /\ pc = "loop"
    /\ idx > Len(SubList)
    /\ pc' = "idle"
    /\ current' = ""
    /\ IF Cardinality(DOMAIN placementDecisions) = 0
       THEN /\ result' = [done |-> TRUE, requeue |-> requeue, err |-> FALSE, wrote |-> FALSE]
            /\ log' = <<>>
            /\ UNCHANGED decisions
       ELSE \E fails \in BOOLEAN :
              LET upd == updateAVRStatus(decisions, placementDecisions, fails)
              IN  /\ decisions' = upd.decisions
                  /\ log' = <<[op |-> "statusUpdate", sub |-> "", kind |-> "AVR",
                               obj |-> <<AVRName>>, ns |-> AVRNamespace, ok |-> ~upd.err]>>
                  /\ result' = [done |-> TRUE, requeue |-> IF upd.err THEN TRUE ELSE requeue,
                                err |-> FALSE, wrote |-> ~upd.err]
    /\ UNCHANGED <<subscriptions, placementRules, failoverClusters, manifestWorks, s3Store,
                   idx, placementDecisions, requeue, outcomes, seq>>
    /\ harnessIdle

(***************************************************************************)
(* The environment, between passes: the operator, the propagation system   *)
(* that owns the subscriptions, and the managed clusters that report the   *)
(* conditions of a bundle.                                                 *)
(***************************************************************************)
forgetPass == /\ log' = <<>>
              /\ current' = ""
              /\ result' = NoResult
              /\ outcomes' = EmptyMap
              /\ UNCHANGED <<pc, idx, placementDecisions, requeue>>

Cond(type, status, time) == [type |-> type, status |-> status, time |-> time]

Reports ==
    { <<Cond("Applied", "True", 1)>>,
      <<Cond("Applied", "True", 1), Cond("Degraded", "True", 1)>> }

\* The subscriptions the operator fails over in Spec.
FailoverSubs == {"app1"}

OperatorSetsFailover ==
    /\ pc = "idle"
    /\ \E s \in FailoverSubs, c \in DRPair :
         /\ failoverClusters[s] # c
         /\ failoverClusters' = [failoverClusters EXCEPT ![s] = c]
    /\ forgetPass
    /\ UNCHANGED <<subscriptions, placementRules, decisions, manifestWorks, s3Store, seq>>
    /\ harnessIdle

OperatorPauses ==
    /\ pc = "idle"
    /\ \E s \in FailoverSubs :
         /\ ~isSubsriptionPausedForDR(subscriptions[s].labels)
         /\ subscriptions' = [subscriptions EXCEPT ![s].labels =
                (RamenDRLabelName :> "protected") @@ (LabelSubscriptionPause :> "true")
                @@ subscriptions[s].labels]
         /\ seq' = [seq EXCEPT ![s] = NoSeq]
    /\ forgetPass
    /\ UNCHANGED <<placementRules, failoverClusters, decisions, manifestWorks, s3Store>>
    /\ harnessIdle

SubscriptionMoves ==
    /\ pc = "idle"
    /\ \E s \in FailoverSubs, c \in DRPair :
         /\ subscriptions[s].statuses # (c :> "ok")
         /\ subscriptions' = [subscriptions EXCEPT ![s].statuses = (c :> "ok")]
    /\ forgetPass
    /\ UNCHANGED <<placementRules, failoverClusters, decisions, manifestWorks, s3Store, seq>>
    /\ harnessIdle

PropagationCompletes ==
    /\ pc = "idle"
    /\ \E s \in Subs :
         /\ subscriptions[s].phase = "PropagationFailed"
         /\ subscriptions' = [subscriptions EXCEPT ![s].phase = "Propagated"]
    /\ forgetPass
    /\ UNCHANGED <<placementRules, failoverClusters, decisions, manifestWorks, s3Store, seq>>
    /\ harnessIdle

RemoteReports ==
    /\ pc = "idle"
    /\ \E k \in DOMAIN manifestWorks, r \in Reports :
         /\ k[1][Len(k[1]) - 1] = MWTypePV
         /\ manifestWorks[k].conditions # r
         /\ manifestWorks' = [manifestWorks EXCEPT ![k].conditions = r]
    /\ forgetPass
    /\ UNCHANGED <<subscriptions, placementRules, failoverClusters, decisions, s3Store, seq>>
    /\ harnessIdle

(***************************************************************************)
(* Spec: the engine and its environment, from a hub on which nothing has   *)
(* been reconciled yet.                                                    *)
(***************************************************************************)
Subscription(s, phase, placement, statusesNil, statuses, labels) ==
    [name |-> s, namespace |-> AVRNamespace, phase |-> phase, placement |-> placement,
     statusesNil |-> statusesNil, statuses |-> statuses, labels |-> labels]

PlacementRule(s, resolved, replicas) ==
    [name |-> s, resolved |-> resolved, replicas |-> replicas]

Buckets == {constructBucketName(AVRNamespace, s) : s \in Subs}

InitIdle ==
    /\ failoverClusters = [s \in Subs |-> ""]
    /\ decisions = EmptyMap
    /\ pc = "idle"
    /\ idx = 1
    /\ placementDecisions = EmptyMap
    /\ requeue = FALSE
    /\ log = <<>>
    /\ current = ""
    /\ result = NoResult
    /\ outcomes = EmptyMap
    /\ seq = [s \in Subs |-> NoSeq]
    /\ applied = FALSE
    /\ calls = <<>>

NoObject == [conditions |-> <<>>, stored |-> <<>>, called |-> TRUE]

Init ==
    /\ InitIdle
    /\ manifestWorks = EmptyMap
    /\ mwObj = NoObject
    /\ subscriptions = [s \in Subs |->
            Subscription(s, IF s \in FailoverSubs THEN "Propagated" ELSE "PropagationFailed",
                         "ref", FALSE, ("east" :> "ok"),
                         (RamenDRLabelName :> "protected") @@ ("app" :> s))]
    /\ placementRules = [s \in Subs |-> PlacementRule(s, DRPair, 1)]
    /\ \E pvs \in {<<>>, <<"pv1">>} : s3Store = [b \in Buckets |-> pvs]

Next ==
    \/ BeginPass
    \/ ProcessNext
    \/ EndPass
    \/ OperatorSetsFailover
    \/ OperatorPauses
    \/ SubscriptionMoves
    \/ PropagationCompletes
    \/ RemoteReports

Spec == Init /\ [][Next]_vars

(***************************************************************************)
(* SpecPass: reconcile passes alone, over a hub whose first subscription   *)
(* and its placement rule are drawn from every combination of the inputs   *)
(* that the needs-convergence path reads.                                  *)
(***************************************************************************)
StatusMaps ==
    { EmptyMap, ("east" :> "ok"), ("west" :> "ok"), ("north" :> "ok"),
      ("east" :> "ok") @@ ("west" :> "ok"), ("east" :> "nilptr") @@ ("west" :> "ok") }

LabelSets ==
    { (RamenDRLabelName :> "protected"),
      (RamenDRLabelName :> "protected") @@ (LabelSubscriptionPause :> "true") }

InitPass ==
    /\ InitIdle
    /\ manifestWorks = EmptyMap
    /\ mwObj = NoObject
    /\ \E phase \in {"Propagated", "Subscribed", "PropagationFailed"},
          placement \in {"nil", "local", "noref", "ref"},
          statusesNil \in BOOLEAN,
          statuses \in StatusMaps,
          labels \in LabelSets,
          home2 \in DRPair :
         /\ statusesNil => statuses = EmptyMap
         /\ subscriptions =
              ("app1" :> Subscription("app1", phase, placement, statusesNil, statuses, labels))
              @@ ("app2" :> Subscription("app2", "Propagated", "ref", FALSE,
                                         (home2 :> "ok"), (RamenDRLabelName :> "protected")))
    /\ \E resolved \in SUBSET Clusters, replicas \in {0, 1, 2} :
         placementRules = ("app1" :> PlacementRule("app1", resolved, replicas))
                          @@ ("app2" :> PlacementRule("app2", DRPair, 0))
    /\ s3Store = [b \in Buckets |-> <<"pv1">>]

NextPass ==
    \/ BeginPass
    \/ ProcessNext
    \/ EndPass

SpecPass == InitPass /\ [][NextPass]_vars

(***************************************************************************)
(* SpecCond: IsManifestInAppliedState called once on a ManifestWork whose  *)
(* condition list is any list of at most MaxConds conditions.              *)
(***************************************************************************)
ConditionLists == UNION {[1..n -> Conditions] : n \in 0..MaxConds}

InitEngineIdle ==
    /\ InitIdle
    /\ subscriptions = [s \in Subs |->
            Subscription(s, "Propagated", "ref", FALSE, ("east" :> "ok"),
                         (RamenDRLabelName :> "protected"))]
    /\ placementRules = [s \in Subs |-> PlacementRule(s, DRPair, 1)]
    /\ s3Store = [b \in Buckets |-> <<>>]

InitCond ==
    /\ InitEngineIdle
    /\ manifestWorks = EmptyMap
    /\ \E c \in ConditionLists :
         mwObj = [conditions |-> c, stored |-> c, called |-> FALSE]

\* mw.Status.Conditions is sorted in place: the caller's object holds the sorted list.
Evaluate ==
    /\ ~mwObj.called
    /\ IF Len(mwObj.conditions) > 0
       THEN \E sorted \in SortByTimestamp(mwObj.conditions) :
              /\ applied' = AppliedOfSorted(sorted)
              /\ mwObj' = [mwObj EXCEPT !.conditions = sorted, !.called = TRUE]
       ELSE /\ applied' = FALSE
            /\ mwObj' = [mwObj EXCEPT !.called = TRUE]
    /\ UNCHANGED engineVars
    /\ UNCHANGED calls

SpecCond == InitCond /\ [][Evaluate]_vars

(***************************************************************************)
(* SpecCOU: createOrUpdateManifestWork called up to MaxCalls times for one *)
(* bundle name and cluster, from a store that holds it or not.             *)
(***************************************************************************)
Payloads == { <<"a">>, <<"b">>, <<"a", "b">>, <<"b", "a">> }
BundleName == <<"bundle">>
BundleKey == <<BundleName, "east">>

InitCOU ==
    /\ InitEngineIdle
    /\ \E stored \in {EmptyMap} \cup
            {(BundleKey :> [manifests |-> m, labels |-> <<>>, conditions |-> <<>>]) :
                m \in Payloads} :
         manifestWorks = stored
    /\ mwObj = NoObject

CreateOrUpdateCall ==
    /\ Len(calls) < MaxCalls
    /\ \E desired \in Payloads, f \in {NoFault, <<"bundle", "get">>, <<"bundle", "write">>} :
         LET r == createOrUpdateManifestWork(
                      [mw |-> manifestWorks, subs |-> subscriptions, log |-> <<>>], "",
                      newManifestWork(BundleName, "east", <<>>, desired), "east", "bundle", f)
         IN  /\ manifestWorks' = r.w.mw
             /\ calls' = Append(calls, [desired |-> desired, err |-> r.err, log |-> r.w.log,
                                        before |-> manifestWorks, after |-> r.w.mw])
    /\ UNCHANGED <<subscriptions, placementRules, failoverClusters, decisions, s3Store, pc,
                   idx, placementDecisions, requeue, log, current, result, outcomes, seq>>
    /\ UNCHANGED <<mwObj, applied>>

SpecCOU == InitCOU /\ [][CreateOrUpdateCall]_vars

(***************************************************************************)
(* SpecClass: reconcile passes over a hub whose first subscription is      *)
(* drawn from every combination of phase, placement and label values, with *)
(* or without a recorded decision whose vrg bundle is stored.              *)
(***************************************************************************)
DRLabelValues == {"", "protected", "Protected", "PROTECTED", "unprotected"}
PauseLabelValues == {"", "true", "True", "TRUE", "false"}

\* The label map with the empty values left out (an absent label reads as "").
LabelsOf(dr, pause) ==
    LET all == (RamenDRLabelName :> dr) @@ (LabelSubscriptionPause :> pause)
    IN  [k \in {x \in DOMAIN all : all[x] # ""} |-> all[k]]

RecordedDecision == [HomeCluster |-> "east", PeerCluster |-> "west"]

InitClass ==
    /\ pc = "idle"
    /\ idx = 1
    /\ placementDecisions = EmptyMap
    /\ requeue = FALSE
    /\ log = <<>>
    /\ current = ""
    /\ result = NoResult
    /\ outcomes = EmptyMap
    /\ seq = [s \in Subs |-> NoSeq]
    /\ applied = FALSE
    /\ calls = <<>>
    /\ mwObj = NoObject
    /\ \E phase \in {"Propagated", "Subscribed", "PropagationFailed"},
          placement \in {"nil", "local", "noref", "ref"},
          dr \in DRLabelValues, pause \in PauseLabelValues :
         subscriptions =
              ("app1" :> Subscription("app1", phase, placement, FALSE, ("east" :> "ok"),
                                      LabelsOf(dr, pause)))
              @@ ("app2" :> Subscription("app2", "Propagated", "ref", FALSE,
                                         ("west" :> "ok"), (RamenDRLabelName :> "protected")))
    /\ \E target \in {"", "west"} :
         failoverClusters = ("app1" :> target) @@ ("app2" :> "")
    /\ \E converged \in BOOLEAN :
         IF converged
         THEN /\ decisions = ("app1" :> RecordedDecision)
              /\ manifestWorks =
                   (<<ManifestWorkName("app1", AVRNamespace, MWTypeVRG), "east">> :>
                       [manifests |-> generateVRGManifestWork("app1", AVRNamespace, "east",
                                          S3Endpoint, S3SecretName).manifests,
                        labels |-> generateVRGManifestWork("app1", AVRNamespace, "east",
                                          S3Endpoint, S3SecretName).labels,
                        conditions |-> <<>>])
         ELSE /\ decisions = EmptyMap
              /\ manifestWorks = EmptyMap
    /\ placementRules = [s \in Subs |-> PlacementRule(s, DRPair, 1)]
    /\ s3Store = [b \in Buckets |-> <<"pv1">>]

SpecClass == InitClass /\ [][NextPass]_vars

(***************************************************************************)
(* SpecRace: two executions of createOrUpdateManifestWork for one bundle   *)
(* name and cluster whose Client.Get and Client.Create/Update calls        *)
(* interleave.  calls[p] is the execution p: the payload it was handed,    *)
(* where it stands, the object its get returned and the error it returned. *)
(* The store refuses to create an object that exists and to update an      *)
(* object from a copy that is older than the stored one.                   *)
(***************************************************************************)
Executions == {1, 2}

\* Client.Create of obj under key.
clientCreate(store, key, obj) ==
    IF key \in DOMAIN store THEN [mw |-> store, err |-> "AlreadyExists"]
    ELSE [mw |-> (key :> [obj EXCEPT !.rv = 1]) @@ store, err |-> ""]

\* An update that stores nothing and reports success.
clientUpdateKeepsStored(store, key, obj) == [mw |-> store, err |-> ""]

\* Client.Update of obj, a copy read at version obj.rv.
clientUpdate(store, key, obj) ==
    IF key \notin DOMAIN store THEN [mw |-> store, err |-> "NotFound"]
    ELSE IF store[key].rv # obj.rv THEN [mw |-> store, err |-> "Conflict"]
    ELSE [mw |-> [store EXCEPT ![key] = [obj EXCEPT !.rv = @ + 1]], err |-> ""]

NotFoundMW == [manifests |-> <<>>, labels |-> <<>>, conditions |-> <<>>, rv |-> 0]

InitRace ==
    /\ failoverClusters = [s \in Subs |-> ""]
    /\ decisions = EmptyMap
    /\ pc = "idle"
    /\ idx = 1
    /\ placementDecisions = EmptyMap
    /\ requeue = FALSE
    /\ log = <<>>
    /\ current = ""
    /\ result = NoResult
    /\ outcomes = EmptyMap
    /\ seq = [s \in Subs |-> NoSeq]
    /\ subscriptions = [s \in Subs |->
            Subscription(s, "Propagated", "ref", FALSE, ("east" :> "ok"),
                         (RamenDRLabelName :> "protected"))]
    /\ placementRules = [s \in Subs |-> PlacementRule(s, DRPair, 1)]
    /\ s3Store = [b \in Buckets |-> <<>>]
    /\ \E stored \in {EmptyMap} \cup
            {(BundleKey :> [manifests |-> m, labels |-> <<>>, conditions |-> <<>>,
                            rv |-> 1]) : m \in Payloads} :
         /\ manifestWorks = stored
         /\ mwObj = [conditions |-> <<>>, stored |-> stored, called |-> TRUE]
    /\ \E d \in [Executions -> Payloads] :
         calls = [p \in Executions |->
                    [desired |-> d[p], at |-> "get", foundMW |-> NotFoundMW, err |-> ""]]
    /\ applied = FALSE

raceFrame ==
    UNCHANGED <<subscriptions, placementRules, failoverClusters, decisions, s3Store, pc,
                idx, placementDecisions, requeue, log, current, result, outcomes, seq,
                mwObj, applied>>

\* r.Client.Get and the comparison of the Specs.
RaceGet(p) ==
    /\ calls[p].at = "get"
    /\ calls' = [calls EXCEPT ![p] =
           IF BundleKey \notin DOMAIN manifestWorks
           THEN [@ EXCEPT !.at = "create"]
           ELSE IF manifestWorks[BundleKey].manifests # calls[p].desired
           THEN [@ EXCEPT !.at = "update", !.foundMW = manifestWorks[BundleKey]]
           ELSE [@ EXCEPT !.at = "done", !.foundMW = manifestWorks[BundleKey]]]
    /\ UNCHANGED manifestWorks
    /\ raceFrame

\* r.Client.Create(mw)
RaceCreate(p) ==
    /\ calls[p].at = "create"
    /\ \E r \in {clientCreate(manifestWorks, BundleKey,
                     [NotFoundMW EXCEPT !.manifests = calls[p].desired])} :
         /\ manifestWorks' = r.mw
         /\ calls' = [calls EXCEPT ![p].at = "done", ![p].err = r.err]
    /\ raceFrame

\* mw.Spec.DeepCopyInto(&foundMW.Spec); r.Client.Update(foundMW)
RaceUpdate(p) ==
    /\ calls[p].at = "update"
    /\ \E r \in {clientUpdate(manifestWorks, BundleKey,
                     [calls[p].foundMW EXCEPT !.manifests = calls[p].desired])} :
         /\ manifestWorks' = r.mw
         /\ calls' = [calls EXCEPT ![p].at = "done", ![p].err = r.err]
    /\ raceFrame

NextRace == \E p \in Executions : RaceGet(p) \/ RaceCreate(p) \/ RaceUpdate(p)

SpecRace == InitRace /\ [][NextRace]_vars

(***************************************************************************)
(* SpecIntents: reconcile passes over two intents in two namespaces, each  *)
(* with one subscription in its namespace.  A pass runs Reconcile for one  *)
(* intent from its get to its status write; calls[i] collects the bundles  *)
(* (name, cluster) the passes over intent i created, updated or deleted,   *)
(* decisions[i] is the status of intent i.                                 *)
(***************************************************************************)
Intents == {"A", "B"}
IntentNamespace == ("A" :> "x") @@ ("B" :> "ns-x")

\* client.ListOptions{Namespace: avr.Namespace}
ListedBy(i) == {s \in DOMAIN subscriptions : subscriptions[s].namespace = IntentNamespace[i]}

IntentAVR(i) ==
    [name |-> i, namespace |-> IntentNamespace[i],
     Spec |-> [FailoverClusters |-> failoverClusters, S3Endpoint |-> S3Endpoint,
               S3SecretName |-> S3SecretName],
     Status |-> [Decisions |-> decisions[i]]]

Touched(l) ==
    {<<l[k].obj, l[k].ns>> : k \in {j \in 1..Len(l) :
        l[j].kind = "ManifestWork" /\ l[j].op \in {"create", "update", "delete"}}}

InitIntents ==
    /\ pc = "idle"
    /\ idx = 1
    /\ placementDecisions = EmptyMap
    /\ requeue = FALSE
    /\ log = <<>>
    /\ current = ""
    /\ result = NoResult
    /\ outcomes = EmptyMap
    /\ seq = [s \in Subs |-> NoSeq]
    /\ applied = FALSE
    /\ mwObj = NoObject
    /\ manifestWorks = EmptyMap
    /\ decisions = [i \in Intents |-> EmptyMap]
    /\ calls = [i \in Intents |-> {}]
    /\ \E a \in {"app-ns", "web"}, b \in {"app", "db"}, homeA \in DRPair, homeB \in DRPair,
          labelsA \in LabelSets, pvs \in {<<>>, <<"pv1">>} :
         /\ subscriptions =
              (a :> [Subscription(a, "Propagated", "ref", FALSE, (homeA :> "ok"), labelsA)
                       EXCEPT !.namespace = IntentNamespace["A"]])
              @@ (b :> [Subscription(b, "Propagated", "ref", FALSE, (homeB :> "ok"),
                                     (RamenDRLabelName :> "protected"))
                          EXCEPT !.namespace = IntentNamespace["B"]])
         /\ placementRules = (a :> PlacementRule(a, DRPair, 1))
                             @@ (b :> PlacementRule(b, DRPair, 1))
         /\ failoverClusters = (a :> "west") @@ (b :> "")
         /\ s3Store = (constructBucketName(IntentNamespace["A"], a) :> pvs)
                      @@ (constructBucketName(IntentNamespace["B"], b) :> pvs)

\* Reconcile for intent i, whose list holds one subscription.
IntentPass(i) ==
    /\ pc = "idle"
    /\ \E s \in ListedBy(i), fails \in BOOLEAN :
         \E f \in FaultsFor(subscriptions[s]),
            order \in IterationOrders(placementRules[s].resolved) :
           \E st \in {processSubscriptionsItem(
                         [w |-> [mw |-> manifestWorks, subs |-> subscriptions, log |-> <<>>],
                          idx |-> 1, placementDecisions |-> EmptyMap,
                          requeue |-> FALSE, kind |-> "", decision |-> NoDecision],
                         IntentAVR(i), subscriptions[s], f, order)} :
               /\ manifestWorks' = st.w.mw
               /\ subscriptions' = st.w.subs
               /\ log' = st.w.log
               /\ calls' = [calls EXCEPT ![i] = @ \cup Touched(st.w.log)]
               /\ decisions' =
                    IF Cardinality(DOMAIN st.placementDecisions) = 0 THEN decisions
                    ELSE [decisions EXCEPT ![i] =
                            updateAVRStatus(@, st.placementDecisions, fails).decisions]
    /\ current' = i
    /\ UNCHANGED <<placementRules, failoverClusters, s3Store, pc, idx, placementDecisions,
                   requeue, result, outcomes, seq, mwObj, applied>>

NextIntents == \E i \in Intents : IntentPass(i)

SpecIntents == InitIntents /\ [][NextIntents]_vars

(***************************************************************************)
(* SpecQuiet: reconcile passes that keep being run over two unpaused,      *)
(* propagated subscriptions, with no failing call and nothing else         *)
(* changing.  The passes start from a hub on which nothing was reconciled, *)
(* or on which an earlier pass decided one of the two subscriptions.       *)
(***************************************************************************)
VrgKeyOf(s, c) == <<ManifestWorkName(s, AVRNamespace, MWTypeVRG), c>>
RolesKeyOf(c) == <<generateVRGRolesManifestWork(c).name, c>>
StoredAs(mw) == [manifests |-> mw.manifests, labels |-> mw.labels, conditions |-> <<>>]

Other(c) == CHOOSE d \in DRPair : d # c

\* The store and the status after a pass that decided the subscriptions in D.
DecidedEarlier(D, home) ==
    /\ decisions = [s \in D |-> [HomeCluster |-> home[s], PeerCluster |-> Other(home[s])]]
    /\ manifestWorks =
         [k \in {RolesKeyOf(home[s]) : s \in D} \cup {VrgKeyOf(s, home[s]) : s \in D} |->
            IF k[1] = generateVRGRolesManifestWork(k[2]).name
            THEN StoredAs(generateVRGRolesManifestWork(k[2]))
            ELSE StoredAs(generateVRGManifestWork(
                              CHOOSE s \in D : VrgKeyOf(s, home[s]) = k,
                              AVRNamespace, k[2], S3Endpoint, S3SecretName))]

InitQuiet ==
    /\ failoverClusters = [s \in Subs |-> ""]
    /\ pc = "idle"
    /\ idx = 1
    /\ placementDecisions = EmptyMap
    /\ requeue = FALSE
    /\ log = <<>>
    /\ current = ""
    /\ result = NoResult
    /\ outcomes = EmptyMap
    /\ seq = [s \in Subs |-> NoSeq]
    /\ applied = FALSE
    /\ calls = <<>>
    /\ mwObj = NoObject
    /\ \E home \in [Subs -> DRPair] :
         /\ subscriptions = [s \in Subs |->
                Subscription(s, "Propagated", "ref", FALSE, (home[s] :> "ok"),
                             (RamenDRLabelName :> "protected") @@ ("app" :> s))]
         /\ \E D \in {{}, {"app1"}, {"app2"}} : DecidedEarlier(D, home)
    /\ placementRules = [s \in Subs |-> PlacementRule(s, DRPair, 1)]
    /\ \E pvs \in {<<>>, <<"pv1">>} : s3Store = [b \in Buckets |-> pvs]

QuietBegin == BeginPass /\ pc' = "loop"

QuietProcess == ProcessNext /\ \A i \in 1..Len(log') : ~FailedCall(log'[i])

QuietEnd == EndPass /\ \A i \in 1..Len(log') : log'[i].ok

NextQuiet == QuietBegin \/ QuietProcess \/ QuietEnd

SpecQuiet == InitQuiet /\ [][NextQuiet]_vars /\ WF_vars(NextQuiet)

(***************************************************************************)
(* SpecLive: passes that keep being run over a hub on which app1 is paused *)
(* for DR with a failover target.  Calls may fail, but a pass whose calls  *)
(* succeed keeps being possible and is eventually run; the cluster that    *)
(* holds a restore bundle may report it degraded at first and eventually   *)
(* reports it applied, with nothing degraded at the latest timestamp.      *)
(***************************************************************************)
SettledReport ==
    <<Cond("Applied", "True", 1), Cond("Degraded", "True", 1), Cond("Applied", "True", 2)>>

IsRestoreBundle(k) == k[1][Len(k[1]) - 1] = MWTypePV

InitLive ==
    /\ pc = "idle"
    /\ idx = 1
    /\ placementDecisions = EmptyMap
    /\ requeue = FALSE
    /\ log = <<>>
    /\ current = ""
    /\ result = NoResult
    /\ outcomes = EmptyMap
    /\ seq = [s \in Subs |-> NoSeq]
    /\ applied = FALSE
    /\ calls = <<>>
    /\ mwObj = NoObject
    /\ \E home \in [Subs -> DRPair] :
         /\ subscriptions = [s \in Subs |->
                Subscription(s, "Propagated", "ref", FALSE, (home[s] :> "ok"),
                    IF s = "app1"
                    THEN (RamenDRLabelName :> "protected")
                         @@ (LabelSubscriptionPause :> "true") @@ ("app" :> s)
                    ELSE (RamenDRLabelName :> "protected") @@ ("app" :> s))]
         /\ \E D \in {{}, {"app1"}, {"app1", "app2"}} : DecidedEarlier(D, home)
    /\ \E target \in DRPair : failoverClusters = ("app1" :> target) @@ ("app2" :> "")
    /\ placementRules = [s \in Subs |-> PlacementRule(s, DRPair, 1)]
    /\ \E pvs \in {<<>>, <<"pv1">>} : s3Store = [b \in Buckets |-> pvs]

RemoteDegrades ==
    /\ pc = "idle"
    /\ \E k \in DOMAIN manifestWorks :
         /\ IsRestoreBundle(k)
         /\ manifestWorks[k].conditions = <<>>
         /\ manifestWorks' = [manifestWorks EXCEPT ![k].conditions =
                                 <<Cond("Applied", "True", 1), Cond("Degraded", "True", 1)>>]
    /\ forgetPass
    /\ UNCHANGED <<subscriptions, placementRules, failoverClusters, decisions, s3Store, seq>>
    /\ harnessIdle

RemoteSettles ==
    /\ pc = "idle"
    /\ \E k \in DOMAIN manifestWorks :
         /\ IsRestoreBundle(k)
         /\ manifestWorks[k].conditions # SettledReport
         /\ manifestWorks' = [manifestWorks EXCEPT ![k].conditions = SettledReport]
    /\ forgetPass
    /\ UNCHANGED <<subscriptions, placementRules, failoverClusters, decisions, s3Store, seq>>
    /\ harnessIdle

NextLive ==
    \/ BeginPass
    \/ ProcessNext
    \/ EndPass
    \/ RemoteDegrades
    \/ RemoteSettles

\* A pass that gets the intent and lists the subscriptions is eventually begun.
CleanBegin == BeginPass /\ pc' = "loop"

\* The loop of a pass does not stop at an item: weak fairness of ProcessNext, which is
\* enabled exactly when the loop stands at an item.
ItemsGetProcessed == []<>~(pc = "loop" /\ idx <= Len(SubList))

\* The calls eventually stop failing: again and again app1 is the item just processed
\* and none of the calls made for it has failed.
CleanItem(s) == pc = "loop" /\ current = s /\ s \in DOMAIN outcomes /\ ~outcomes[s].failed

SpecLive ==
    /\ InitLive
    /\ [][NextLive]_vars
    /\ WF_vars(CleanBegin)
    /\ WF_vars(EndPass)
    /\ SF_vars(RemoteSettles)
    /\ ItemsGetProcessed
    /\ []<>CleanItem("app1")

(***************************************************************************)
(* Properties.                                                             *)
(***************************************************************************)
VrgKey(s, c) == <<ManifestWorkName(s, AVRNamespace, MWTypeVRG), c>>
PvKey(s, c) == <<ManifestWorkName(s, AVRNamespace, MWTypePV), c>>
RolesKey(c) == <<generateVRGRolesManifestWork(c).name, c>>

IsBundleWrite(e) == e.op \in {"create", "update", "delete"} /\ e.kind = "ManifestWork"
DeleteSteps(l) == {i \in 1..Len(l) : IsDeleteStep(l[i])}
Evaluations(l) == {i \in 1..Len(l) : IsEvaluation(l[i])}
Unpauses(l) == {i \in 1..Len(l) : IsUnpause(l[i])}
BundleWrites(l) == {i \in 1..Len(l) : IsBundleWrite(l[i])}
LoopDone == pc = "loop" /\ idx > Len(SubList)
AtItem(s) == pc = "loop" /\ idx <= Len(SubList) /\ SubList[idx] = s

\* C1: in every state each subscription has its vrg bundle on at most one cluster.
C1_OnePrimaryPerSubscription ==
    \A s \in Subs :
        Cardinality({c \in Clusters : VrgKey(s, c) \in DOMAIN manifestWorks}) <= 1

\* C2: a subscription that has a decision in the persisted status has one in every
\* later persisted status.
C2_DecisionsOnlyGrow ==
    [][\A s \in DOMAIN decisions : s \in DOMAIN decisions']_vars

IsRestoreAttempt(e) ==
    /\ e.op \in {"create", "update"}
    /\ e.kind = "ManifestWork"
    /\ e.obj[Len(e.obj) - 1] = MWTypePV

RestoreAttempts(l) == {i \in 1..Len(l) : IsRestoreAttempt(l[i])}

RestorePending(s) ==
    /\ PathOf(subscriptions[s]) = "paused"
    /\ failoverClusters[s] # ""
    /\ PvKey(s, failoverClusters[s]) \in DOMAIN manifestWorks
    /\ ~IsManifestInAppliedState(manifestWorks[PvKey(s, failoverClusters[s])].conditions)

C6_FailoverIdempotent ==
    [][\A s \in Subs :
         (AtItem(s) /\ RestorePending(s)) =>
            /\ \A i \in 1..Len(log') :
                  log'[i].op \notin {"create", "update", "delete", "download"}
            /\ outcomes'[s].kind = "Requeue"
            /\ requeue'
            /\ manifestWorks' = manifestWorks
            /\ subscriptions' = subscriptions]_vars

C6_WaitedOnPendingRestore ==
    \E s \in Subs :
        /\ current = s
        /\ RestorePending(s)
        /\ outcomes[s].kind = "Requeue"
        /\ BundleWrites(log) = {}
        /\ \E i \in Evaluations(log) : ~log[i].ok

\* C7: when the loop over the subscriptions ends, every subscription has been
\* processed, every decision that was computed is in the aggregated map, the requeue
\* flag is set if any subscription asked for it, and a ready unpaused subscription
\* none of whose own calls failed has its decision whatever the others yielded.
C7_PartialFailureIsolation ==
    LoopDone =>
        /\ \A s \in Subs : s \in DOMAIN outcomes
        /\ \A s \in Subs :
              outcomes[s].kind = "Decision" =>
                 /\ s \in DOMAIN placementDecisions
                 /\ placementDecisions[s] = outcomes[s].decision
        /\ (\E s \in Subs : outcomes[s].kind = "Requeue") => requeue
        /\ \A s \in Subs :
              (/\ outcomes[s].path = "unpaused"
               /\ ~outcomes[s].failed
               /\ subscriptions[s].phase = "Propagated")
              => outcomes[s].kind \in {"Decision", "Converged"}

C7_OneFailedOtherDecided ==
    /\ LoopDone
    /\ outcomes["app1"].kind = "Requeue"
    /\ outcomes["app1"].failed
    /\ outcomes["app2"].kind = "Decision"
    /\ "app2" \in DOMAIN placementDecisions
    /\ requeue

\* C4: from a store without the bundle, two calls in a row with the same desired
\* content issue one create and no update, and the second leaves the store as the
\* first left it.
CallsOf(l, op) == Cardinality({i \in 1..Len(l) : l[i].op = op})

C4_CreateOrUpdateIdempotent ==
    \A i \in 1..(Len(calls) - 1) :
        (/\ BundleKey \notin DOMAIN calls[i].before
         /\ calls[i + 1].desired = calls[i].desired
         /\ ~calls[i].err
         /\ ~calls[i + 1].err)
        => /\ CallsOf(calls[i].log \o calls[i + 1].log, "create") = 1
           /\ CallsOf(calls[i].log \o calls[i + 1].log, "update") = 0
           /\ calls[i + 1].after = calls[i].after

C4_CalledTwiceFromAbsent ==
    /\ Len(calls) = 2
    /\ BundleKey \notin DOMAIN calls[1].before
    /\ calls[2].desired = calls[1].desired
    /\ ~calls[1].err
    /\ ~calls[2].err
    /\ BundleKey \in DOMAIN calls[2].after

\* C5: IsManifestInAppliedState is true exactly when, among the conditions that carry
\* the maximum timestamp of the list, one is Applied with status true and none is
\* Degraded with status true; it is false for the empty list.
AtMaximum(conds) ==
    {i \in 1..Len(conds) : \A j \in 1..Len(conds) : conds[j].time <= conds[i].time}

ExpectedApplied(conds) ==
    /\ \E i \in AtMaximum(conds) : conds[i].type = "Applied" /\ conds[i].status = "True"
    /\ ~\E i \in AtMaximum(conds) : conds[i].type = "Degraded" /\ conds[i].status = "True"

C5_AppliedState ==
    mwObj.called => (applied <=> ExpectedApplied(mwObj.stored))

C5_OlderDegradedIgnored ==
    /\ mwObj.called
    /\ applied
    /\ Cardinality(AtMaximum(mwObj.stored)) >= 2
    /\ \E i \in 1..Len(mwObj.stored) :
          /\ i \notin AtMaximum(mwObj.stored)
          /\ mwObj.stored[i].type = "Degraded"
          /\ mwObj.stored[i].status = "True"

\* C8: on the needs-convergence path, a placement that resolves to a number of
\* clusters other than 2 or declares a replica count other than 1 ends in Requeue
\* without a decision, and no bundle is created or updated.
BadPlacement(s) ==
    \/ Cardinality(placementRules[s].resolved) # maxClusterCount
    \/ placementRules[s].replicas \notin {0, requiredClusterReplicas}

NeedsConvergence(s) ==
    /\ current = s
    /\ outcomes[s].path = "unpaused"
    /\ outcomes[s].kind # "Converged"

C8_PlacementCardinality ==
    \A s \in Subs :
        (NeedsConvergence(s) /\ BadPlacement(s)) =>
            /\ outcomes[s].kind = "Requeue"
            /\ s \notin DOMAIN placementDecisions
            /\ BundleWrites(log) = {}

C8_ThreeClustersResolved ==
    /\ NeedsConvergence("app1")
    /\ Cardinality(placementRules["app1"].resolved) = 3
    /\ \E i \in 1..Len(log) : log[i].op = "resolve" /\ log[i].ok
    /\ outcomes["app1"].kind = "Requeue"

\* C9: over two resolved clusters, if exactly one has an entry in the subscription's
\* status map it is the home and the other the peer; if neither or both have one the
\* outcome is Requeue with no decision and no bundle written.
Resolved(s) ==
    /\ NeedsConvergence(s)
    /\ ~BadPlacement(s)
    /\ \E i \in 1..Len(log) : log[i].op = "resolve" /\ log[i].ok

C9_HomePeerSelection ==
    \A s \in Subs :
        Resolved(s) =>
            LET present == placementRules[s].resolved \cap DOMAIN subscriptions[s].statuses
            IN  IF Cardinality(present) = 1
                THEN outcomes[s].kind = "Decision" =>
                        /\ outcomes[s].decision.HomeCluster \in present
                        /\ outcomes[s].decision.PeerCluster
                              \in placementRules[s].resolved \ present
                ELSE /\ outcomes[s].kind = "Requeue"
                     /\ s \notin DOMAIN placementDecisions
                     /\ BundleWrites(log) = {}

\* C10 (as claimed): the pass over an unpaused, propagated subscription without a
\* prior decision whose selection yields home H and peer P creates exactly one role
\* bundle and one vrg bundle, both on H, writes nothing to P, and persists the
\* decision {H, P} with requeue false.
Selects(s) ==
    /\ AtItem(s)
    /\ PathOf(subscriptions[s]) = "unpaused"
    /\ subscriptions[s].phase = "Propagated"
    /\ s \notin DOMAIN decisions
    /\ outcomes'[s].kind = "Decision"

CreatesOf(l, key) ==
    {i \in 1..Len(l) : /\ l[i].op = "create" /\ l[i].kind = "ManifestWork"
                       /\ l[i].obj = key[1] /\ l[i].ns = key[2] /\ l[i].ok}

UpdatesOf(l, key) ==
    {i \in 1..Len(l) : /\ l[i].op = "update" /\ l[i].kind = "ManifestWork"
                       /\ l[i].obj = key[1] /\ l[i].ns = key[2] /\ l[i].ok}

Decided == {s \in Subs : outcomes[s].kind = "Decision"}

C10_OneCreateEachAndPersisted ==
    [][/\ \A s \in Subs :
            Selects(s) =>
               LET H == outcomes'[s].decision.HomeCluster
               IN  /\ Cardinality(CreatesOf(log', RolesKey(H))) = 1
                   /\ Cardinality(CreatesOf(log', VrgKey(s, H))) = 1
                   /\ \A i \in BundleWrites(log') : log'[i].ns = H
                   /\ placementDecisions'[s] = outcomes'[s].decision
                   /\ requeue' = requeue
       /\ (LoopDone /\ Decided # {}) =>
               /\ \A s \in Decided : /\ s \in DOMAIN decisions'
                                     /\ decisions'[s] = outcomes[s].decision
               /\ result'.requeue = requeue]_vars

\* C10 (amended): that pass converges the role bundle and the vrg bundle on H, each
\* with one create if it was absent, one update if it was stored with other content
\* and no write if it was stored with the same content, so that both are stored on H
\* afterwards; it writes to no other cluster and to no other bundle, and adds the
\* decision {H, P} to the pass's decisions without asking for a requeue.  The pass
\* persists its decisions when its status write succeeds, and otherwise keeps the
\* stored status and asks for a requeue.
ConvergedBy(l, old, new, key, manifests) ==
    /\ key \in DOMAIN new
    /\ new[key].manifests = manifests
    /\ Cardinality(CreatesOf(l, key)) = IF key \in DOMAIN old THEN 0 ELSE 1
    /\ Cardinality(UpdatesOf(l, key)) =
          IF key \in DOMAIN old /\ old[key].manifests # manifests THEN 1 ELSE 0

C10_ConvergesOnHomeAndPersists ==
    [][/\ \A s \in Subs :
            Selects(s) =>
               LET H == outcomes'[s].decision.HomeCluster
                   keys == {RolesKey(H), VrgKey(s, H)}
               IN  /\ ConvergedBy(log', manifestWorks, manifestWorks', RolesKey(H),
                                  generateVRGRolesManifestWork(H).manifests)
                   /\ ConvergedBy(log', manifestWorks, manifestWorks', VrgKey(s, H),
                                  generateVRGManifestWork(s, AVRNamespace, H, S3Endpoint,
                                                          S3SecretName).manifests)
                   /\ \A i \in BundleWrites(log') :
                         <<log'[i].obj, log'[i].ns>> \in keys
                   /\ DOMAIN manifestWorks' = DOMAIN manifestWorks \cup keys
                   /\ \A k \in DOMAIN manifestWorks \ keys :
                         manifestWorks'[k] = manifestWorks[k]
                   /\ placementDecisions'[s] = outcomes'[s].decision
                   /\ requeue' = requeue
       /\ (LoopDone /\ Decided # {}) =>
               /\ \A s \in Decided : placementDecisions[s] = outcomes[s].decision
               /\ IF result'.wrote
                  THEN decisions' = placementDecisions /\ result'.requeue = requeue
                  ELSE decisions' = decisions /\ result'.requeue]_vars

C10_BothCreatedOnHome ==
    \E s \in Subs :
        /\ current = s
        /\ outcomes[s].path = "unpaused"
        /\ outcomes[s].kind = "Decision"
        /\ s \notin DOMAIN decisions
        /\ Cardinality(CreatesOf(log, RolesKey(outcomes[s].decision.HomeCluster))) = 1
        /\ Cardinality(CreatesOf(log, VrgKey(s, outcomes[s].decision.HomeCluster))) = 1

\* C11: the first failover pass (target T named, no restore bundle on T, the backup
\* holds at least one volume) issues no unpause and yields Requeue; when none of its
\* calls fails it runs the deletion step, after which the vrg bundle is not on the
\* recorded home, and creates exactly one restore bundle, on T, and nothing else.
BucketOf(s) == constructBucketName(AVRNamespace, s)

FirstFailoverPass(s) ==
    /\ AtItem(s)
    /\ PathOf(subscriptions[s]) = "paused"
    /\ failoverClusters[s] # ""
    /\ PvKey(s, failoverClusters[s]) \notin DOMAIN manifestWorks
    /\ Len(s3Store[BucketOf(s)]) >= 1

WritesOf(l) ==
    {i \in 1..Len(l) : l[i].op \in {"create", "update"} /\ l[i].kind = "ManifestWork"}

C11_FirstFailoverPass ==
    [][\A s \in Subs :
         FirstFailoverPass(s) =>
            /\ Unpauses(log') = {}
            /\ outcomes'[s].kind = "Requeue"
            /\ requeue'
            /\ ~outcomes'[s].failed =>
                  /\ DeleteSteps(log') # {}
                  /\ s \in DOMAIN decisions =>
                        VrgKey(s, decisions[s].HomeCluster) \notin DOMAIN manifestWorks'
                  /\ Cardinality(CreatesOf(log', PvKey(s, failoverClusters[s]))) = 1
                  /\ \A i \in WritesOf(log') :
                        <<log'[i].obj, log'[i].ns>> = PvKey(s, failoverClusters[s])
                  /\ DOMAIN manifestWorks' \ DOMAIN manifestWorks
                        = {PvKey(s, failoverClusters[s])}]_vars

C11_StaleDeletedRestoreCreated ==
    \E s \in Subs :
        /\ current = s
        /\ outcomes[s].path = "paused"
        /\ outcomes[s].kind = "Requeue"
        /\ \E i \in 1..Len(log) : log[i].op = "delete" /\ log[i].ok
        /\ Cardinality(CreatesOf(log, PvKey(s, failoverClusters[s]))) = 1
        /\ Unpauses(log) = {}

\* C12: a pass in which no subscription produced a decision writes no status and
\* returns the OR of the subscriptions' requeue flags; otherwise it issues exactly one
\* status write, after the last subscription, which replaces the whole decision map;
\* the stored status changes at no other step of the pass.
StatusWrites(l) == {i \in 1..Len(l) : l[i].op = "statusUpdate"}

C12_StatusWriteDiscipline ==
    [][/\ (pc = "loop" /\ ~LoopDone) =>
             /\ decisions' = decisions
             /\ StatusWrites(log') = {}
       /\ (pc = "idle" /\ pc' = "loop") =>
             /\ decisions' = decisions
             /\ StatusWrites(log') = {}
       /\ LoopDone =>
             IF Decided = {}
             THEN /\ decisions' = decisions
                  /\ StatusWrites(log') = {}
                  /\ result'.requeue <=> \E s \in Subs : outcomes[s].kind = "Requeue"
             ELSE /\ Cardinality(StatusWrites(log')) = 1
                  /\ decisions' = IF result'.wrote
                                  THEN [s \in Decided |-> outcomes[s].decision]
                                  ELSE decisions]_vars

C12_WroteWholeMap ==
    /\ result.done
    /\ result.wrote
    /\ StatusWrites(log) # {}
    /\ DOMAIN decisions = {"app2"}
    /\ outcomes["app1"].kind = "Converged"

\* C13: when the status write fails the pass returns requeue true, whatever the
\* subscriptions' flags were, and the stored status is what it was before the pass.
C13_FailedStatusWrite ==
    [][(LoopDone /\ \E i \in StatusWrites(log') : ~log'[i].ok) =>
          /\ result'.requeue
          /\ decisions' = decisions]_vars

C13_FailedWriteNoRequeueAsked ==
    /\ result.done
    /\ ~result.wrote
    /\ \E i \in StatusWrites(log) : ~log[i].ok
    /\ ~requeue
    /\ result.requeue
    /\ DOMAIN decisions # {}

\* C14: a decision {H, P} for a subscription is emitted, aggregated and written to
\* the status only after, in that pass, the role bundle and then the subscription's
\* vrg bundle were converged on H without a failed call; when a call of a converge
\* step fails the outcome is Requeue and no decision is emitted.
GetsOf(l, key) ==
    {i \in 1..Len(l) : /\ l[i].op = "get" /\ l[i].kind = "ManifestWork"
                       /\ l[i].obj = key[1] /\ l[i].ns = key[2] /\ l[i].ok}

StoredOnHome(s, H) ==
    /\ RolesKey(H) \in DOMAIN manifestWorks
    /\ manifestWorks[RolesKey(H)].manifests = generateVRGRolesManifestWork(H).manifests
    /\ VrgKey(s, H) \in DOMAIN manifestWorks
    /\ manifestWorks[VrgKey(s, H)].manifests =
          generateVRGManifestWork(s, AVRNamespace, H, S3Endpoint, S3SecretName).manifests

FailedBundleCall(e) ==
    FailedCall(e) /\ e.kind = "ManifestWork" /\ e.op \in {"get", "create", "update"}

C14_DecisionAfterConvergence ==
    /\ \A s \in Subs :
          (current = s /\ outcomes[s].kind = "Decision") =>
              /\ ~outcomes[s].failed
              /\ \E i \in GetsOf(log, RolesKey(outcomes[s].decision.HomeCluster)) :
                    \E j \in GetsOf(log, VrgKey(s, outcomes[s].decision.HomeCluster)) :
                        i < j
              /\ StoredOnHome(s, outcomes[s].decision.HomeCluster)
    /\ \A s \in Subs :
          (/\ current = s
           /\ outcomes[s].path = "unpaused"
           /\ \E i \in 1..Len(log) : FailedBundleCall(log[i]))
          => /\ outcomes[s].kind = "Requeue"
             /\ s \notin DOMAIN placementDecisions
    /\ pc = "loop" =>
          \A s \in DOMAIN placementDecisions :
              /\ s \in DOMAIN outcomes
              /\ outcomes[s].kind = "Decision"
              /\ placementDecisions[s] = outcomes[s].decision
              /\ StoredOnHome(s, placementDecisions[s].HomeCluster)
    /\ (result.done /\ result.wrote) =>
          \A s \in DOMAIN decisions :
              /\ s \in DOMAIN outcomes
              /\ outcomes[s].kind = "Decision"
              /\ decisions[s] = outcomes[s].decision
              /\ StoredOnHome(s, decisions[s].HomeCluster)

C14_DecisionWrittenAfterBothStored ==
    /\ result.done
    /\ result.wrote
    /\ "app1" \in DOMAIN decisions
    /\ StoredOnHome("app1", decisions["app1"].HomeCluster)
    /\ outcomes["app2"].kind = "Requeue"
    /\ outcomes["app2"].failed

\* C15: an unpause is issued for a subscription in a pass only after the restore
\* bundle on the failover target was evaluated as applied in that pass, or when no
\* restore bundle is on the target after the restore step; while a restore bundle is
\* on the target and not applied the pass issues no unpause and yields Requeue.
RestoreOnTarget(s) ==
    /\ failoverClusters[s] # ""
    /\ PvKey(s, failoverClusters[s]) \in DOMAIN manifestWorks

C15_UnpauseOnlyWhenApplied ==
    \A s \in Subs :
        (current = s /\ outcomes[s].path = "paused") =>
            /\ \A j \in Unpauses(log) :
                  \/ \E i \in Evaluations(log) : i < j /\ log[i].ok
                  \/ /\ failoverClusters[s] # ""
                     /\ ~RestoreOnTarget(s)
                     /\ Evaluations(log) = {}
                     /\ DeleteSteps(log) # {}
            /\ (/\ RestoreOnTarget(s)
                /\ ~IsManifestInAppliedState(
                        manifestWorks[PvKey(s, failoverClusters[s])].conditions))
               => /\ Unpauses(log) = {}
                  /\ outcomes[s].kind = "Requeue"

C15_DegradedRestoreNotUnpaused ==
    \E s \in Subs :
        /\ current = s
        /\ outcomes[s].path = "paused"
        /\ RestoreOnTarget(s)
        /\ Len(manifestWorks[PvKey(s, failoverClusters[s])].conditions) = 2
        /\ \E i \in Evaluations(log) : ~log[i].ok
        /\ Unpauses(log) = {}
        /\ outcomes[s].kind = "Requeue"

\* C16: after a pass that unpaused a subscription, with nothing else changed, the
\* subscription is on the unpaused path and no vrg bundle is found for it on the
\* recorded home, so that the next pass takes the needs-convergence path.
JustUnpaused(s) ==
    /\ result.done
    /\ s \in DOMAIN outcomes
    /\ outcomes[s].path = "paused"
    /\ GetLabel(subscriptions[s].labels, LabelSubscriptionPause) = "false"

C16_ReclassifiedAfterUnpause ==
    \A s \in Subs :
        JustUnpaused(s) =>
            /\ PathOf(subscriptions[s]) = "unpaused"
            /\ ~vrgManifestWorkAlreadyExists(
                    [mw |-> manifestWorks, subs |-> subscriptions, log |-> <<>>],
                    AVR, subscriptions[s], NoFault).exists

\* C17: a subscription classified paused-for-DR yields Requeue and no decision on
\* every branch, no entry for it is added to the pass's decisions, and the pass
\* returns requeue true.
C17_SequencerNeverDecides ==
    /\ \A s \in Subs :
          (current = s /\ outcomes[s].path = "paused") =>
              /\ outcomes[s].kind = "Requeue"
              /\ outcomes[s].decision = NoDecision
    /\ pc = "loop" =>
          \A s \in DOMAIN outcomes :
              outcomes[s].path = "paused" =>
                  /\ s \notin DOMAIN placementDecisions
                  /\ requeue
    /\ (result.done /\ \E s \in DOMAIN outcomes : outcomes[s].path = "paused") =>
          result.requeue

C17_UnpausedAndRequeued ==
    /\ JustUnpaused("app1")
    /\ result.requeue
    /\ result.wrote
    /\ outcomes["app2"].kind = "Decision"
    /\ "app1" \notin DOMAIN decisions

\* C18: a paused-for-DR subscription without an entry in the failover override yields
\* Requeue and issues no lookup, delete, download, create, update or unpause.
NoTarget(s) ==
    /\ AtItem(s)
    /\ PathOf(subscriptions[s]) = "paused"
    /\ failoverClusters[s] = ""

C18_MissingTarget ==
    [][\A s \in Subs :
         NoTarget(s) =>
            /\ outcomes'[s].kind = "Requeue"
            /\ requeue'
            /\ s \notin DOMAIN placementDecisions'
            /\ \A i \in 1..Len(log') : log'[i].op = "info"
            /\ manifestWorks' = manifestWorks
            /\ subscriptions' = subscriptions]_vars

C18_PausedWithoutTarget ==
    /\ current = "app1"
    /\ outcomes["app1"].path = "paused"
    /\ failoverClusters["app1"] = ""
    /\ outcomes["app1"].kind = "Requeue"
    /\ Len(log) = 1

\* C19: when no restore bundle is on the target and the backup holds no volume, no
\* restore bundle is created, nothing is evaluated, the outcome is Requeue, and when
\* no call of the pass fails the unpause is issued in that pass and sets the pause
\* label to "false".
EmptyBackupPass(s) ==
    /\ AtItem(s)
    /\ PathOf(subscriptions[s]) = "paused"
    /\ failoverClusters[s] # ""
    /\ PvKey(s, failoverClusters[s]) \notin DOMAIN manifestWorks
    /\ Len(s3Store[BucketOf(s)]) = 0

C19_EmptyVolumeSet ==
    [][\A s \in Subs :
         EmptyBackupPass(s) =>
            /\ RestoreAttempts(log') = {}
            /\ DOMAIN manifestWorks' \subseteq DOMAIN manifestWorks
            /\ outcomes'[s].kind = "Requeue"
            /\ Evaluations(log') = {}
            /\ ~outcomes'[s].failed =>
                  /\ \E j \in Unpauses(log') : log'[j].ok
                  /\ GetLabel(subscriptions'[s].labels, LabelSubscriptionPause) = "false"]_vars

C19_UnpausedWithoutRestore ==
    \E s \in Subs :
        /\ current = s
        /\ outcomes[s].path = "paused"
        /\ Len(s3Store[BucketOf(s)]) = 0
        /\ \E i \in 1..Len(log) : log[i].op = "download" /\ log[i].ok
        /\ RestoreAttempts(log) = {}
        /\ \E j \in Unpauses(log) : log[j].ok

\* C20: a step of the engine leaves every subscription as it was, except that a
\* successful unpause sets the pause label of the subscription it processes to
\* "false" and keeps every other label.
WithPauseFalse(labels) ==
    [k \in DOMAIN labels \cup {LabelSubscriptionPause} |->
        IF k = LabelSubscriptionPause THEN "false" ELSE labels[k]]

C20_OnlyPauseLabelWritten ==
    [][(pc = "loop" \/ pc' = "loop") =>
          \A s \in Subs :
              IF AtItem(s) /\ \E j \in Unpauses(log') : log'[j].ok
              THEN subscriptions'[s] =
                      [subscriptions[s] EXCEPT !.labels = WithPauseFalse(@)]
              ELSE subscriptions'[s] = subscriptions[s]]_vars

C20_OtherLabelsKept ==
    \E s \in Subs :
        /\ current = s
        /\ \E j \in Unpauses(log) : log[j].ok
        /\ subscriptions[s].labels =
              (RamenDRLabelName :> "protected") @@ (LabelSubscriptionPause :> "false")
              @@ ("app" :> s)

\* C21: an item whose phase is Subscribed or whose placement is local is skipped
\* whatever its labels: nothing is read or written for it and it adds neither a
\* decision nor a requeue.  Any other item enters the failover sequence exactly when
\* its ramendr label is "protected" and its pause label is "true" in any letter case,
\* whether or not a decision is recorded for it and its vrg bundle is stored.
IsLocal(sub) == sub.phase = "Subscribed" \/ sub.placement = "local"

MarkedPaused(sub) ==
    /\ GetLabel(sub.labels, RamenDRLabelName) \in {"protected", "Protected", "PROTECTED"}
    /\ GetLabel(sub.labels, LabelSubscriptionPause) \in {"true", "True", "TRUE"}

EntersSequencer(l) == Len(l) > 0 /\ l[1].obj = <<"Processing paused subscription">>

C21_ClassificationPriority ==
    [][\A s \in Subs :
         AtItem(s) =>
            IF IsLocal(subscriptions[s])
            THEN /\ log' = <<>>
                 /\ outcomes'[s].kind = "Skip"
                 /\ manifestWorks' = manifestWorks
                 /\ subscriptions' = subscriptions
                 /\ placementDecisions' = placementDecisions
                 /\ requeue' = requeue
            ELSE EntersSequencer(log') <=> MarkedPaused(subscriptions[s])]_vars

C21_PausedBeforeConverged ==
    /\ current = "app1"
    /\ subscriptions["app1"].phase = "PropagationFailed"
    /\ subscriptions["app1"].placement = "nil"
    /\ GetLabel(subscriptions["app1"].labels, RamenDRLabelName) = "PROTECTED"
    /\ GetLabel(subscriptions["app1"].labels, LabelSubscriptionPause) = "True"
    /\ "app1" \in DOMAIN decisions
    /\ EntersSequencer(log)
    /\ \E i \in 1..Len(log) :
          /\ log[i].op = "delete"
          /\ log[i].obj = VrgKey("app1", decisions["app1"].HomeCluster)[1]
          /\ log[i].ok

\* C22: for an unpaused item with a recorded decision whose vrg bundle is stored on
\* the recorded home, the pass issues the existence lookup and nothing else.  When the
\* lookup succeeds the item adds no decision and no requeue; when it fails the outcome
\* is Requeue.  In both cases no bundle is written.
AlreadyConverged(s) ==
    /\ AtItem(s)
    /\ ~IsLocal(subscriptions[s])
    /\ ~isSubsriptionPausedForDR(subscriptions[s].labels)
    /\ s \in DOMAIN decisions
    /\ VrgKey(s, decisions[s].HomeCluster) \in DOMAIN manifestWorks

C22_AlreadyConvergedNoOp ==
    [][\A s \in Subs :
         AlreadyConverged(s) =>
            /\ Len(log') = 1
            /\ log'[1].op = "get"
            /\ log'[1].kind = "ManifestWork"
            /\ <<log'[1].obj, log'[1].ns>> = VrgKey(s, decisions[s].HomeCluster)
            /\ manifestWorks' = manifestWorks
            /\ subscriptions' = subscriptions
            /\ placementDecisions' = placementDecisions
            /\ IF log'[1].ok
               THEN outcomes'[s].kind = "Converged" /\ requeue' = requeue
               ELSE outcomes'[s].kind = "Requeue" /\ requeue']_vars

C22_ConvergedItemSkipped ==
    \E s \in Subs :
        /\ current = s
        /\ outcomes[s].kind = "Converged"
        /\ s \in DOMAIN decisions
        /\ VrgKey(s, decisions[s].HomeCluster) \in DOMAIN manifestWorks
        /\ Len(log) = 1
        /\ ~requeue
        /\ s \notin DOMAIN placementDecisions

\* C23: a call of createOrUpdateManifestWork that returns no error has issued one
\* create when the bundle was absent, one update when it was stored with another
\* payload and no write when it was stored with the desired payload, and the stored
\* payload is the desired one afterwards.  A call whose get fails returns the error
\* and issues no create or update.
WriteOps(l) == [op \in {"create", "update", "delete"} |-> CallsOf(l, op)]
OneWrite(op) == [o \in {"create", "update", "delete"} |-> IF o = op THEN 1 ELSE 0]

GetFailed(l) == Len(l) > 0 /\ l[1].op = "get" /\ ~l[1].ok

C23_WriteChosenByObservedState ==
    \A i \in 1..Len(calls) :
        /\ ~calls[i].err =>
              /\ WriteOps(calls[i].log) =
                    (IF BundleKey \notin DOMAIN calls[i].before THEN OneWrite("create")
                     ELSE IF calls[i].before[BundleKey].manifests # calls[i].desired
                     THEN OneWrite("update")
                     ELSE OneWrite("none"))
              /\ BundleKey \in DOMAIN calls[i].after
              /\ calls[i].after[BundleKey].manifests = calls[i].desired
        /\ GetFailed(calls[i].log) =>
              /\ calls[i].err
              /\ Len(calls[i].log) = 1
              /\ calls[i].after = calls[i].before

C23_FailedReadThenUpdate ==
    /\ Len(calls) = 2
    /\ GetFailed(calls[1].log)
    /\ BundleKey \in DOMAIN calls[2].before
    /\ calls[2].before[BundleKey].manifests = <<"a", "b">>
    /\ calls[2].desired = <<"b", "a">>
    /\ ~calls[2].err
    /\ calls[2].after[BundleKey].manifests = <<"b", "a">>

\* C24 (as stated): when both executions have returned, the stored payload is the one
\* that running the first call to its end and then the second leaves, however their
\* steps interleaved and whichever ran first.
InSequence(store, first, second) ==
    createOrUpdateManifestWork(
        createOrUpdateManifestWork(
            [mw |-> store, subs |-> subscriptions, log |-> <<>>], "",
            newManifestWork(BundleName, "east", <<>>, first), "east", "bundle", NoFault).w,
        "", newManifestWork(BundleName, "east", <<>>, second), "east", "bundle",
        NoFault).w.mw[BundleKey].manifests

BothReturned == \A p \in Executions : calls[p].at = "done"

C24_SameContentInAnyOrder ==
    BothReturned =>
        /\ BundleKey \in DOMAIN manifestWorks
        /\ manifestWorks[BundleKey].manifests =
              InSequence(mwObj.stored, calls[1].desired, calls[2].desired)

\* C24 (amended): two executions that were handed the same payload leave that payload
\* stored however their steps interleave, which is what either sequential order leaves;
\* at least one of them returns no error, and the other returns no error or the
\* store's refusal of its create or update.
C24_SameDesiredSameContent ==
    (BothReturned /\ calls[1].desired = calls[2].desired) =>
        /\ BundleKey \in DOMAIN manifestWorks
        /\ manifestWorks[BundleKey].manifests = calls[1].desired
        /\ manifestWorks[BundleKey].manifests =
              InSequence(mwObj.stored, calls[1].desired, calls[2].desired)
        /\ \E p \in Executions : calls[p].err = ""
        /\ \A p \in Executions : calls[p].err \in {"", "AlreadyExists", "Conflict"}

C24_BothSawStaleOneRefused ==
    /\ BothReturned
    /\ calls[1].desired = calls[2].desired
    /\ mwObj.stored # EmptyMap
    /\ calls[1].err = "Conflict"
    /\ calls[2].err = ""
    /\ manifestWorks[BundleKey].manifests = calls[1].desired

\* C25: the bundles created, updated or deleted by the passes over one intent are
\* disjoint from those of the passes over the other intent, and the bundle names of
\* distinct (owner name, owner namespace, bundle type) triples differ.
OwnerTriples ==
    {<<subscriptions[s].name, subscriptions[s].namespace, t>> :
        s \in DOMAIN subscriptions, t \in {MWTypeVRG, MWTypePV}}

C25_IntentsTouchDisjointBundles ==
    (calls["A"] # {} /\ calls["B"] # {}) =>
        /\ calls["A"] \cap calls["B"] = {}
        /\ \A x, y \in OwnerTriples :
              x # y =>
                ManifestWorkName(x[1], x[2], x[3]) # ManifestWorkName(y[1], y[2], y[3])

\* C26 (as stated): a bundle leaves the store only by a delete of a pass that processes
\* a paused subscription with no restore bundle on its failover target, and the bundle
\* deleted is the restore bundle of that subscription.
Deletes(l) == {i \in 1..Len(l) : l[i].op = "delete" /\ l[i].kind = "ManifestWork"}
DeletedKeys(l) == {<<l[i].obj, l[i].ns>> : i \in {j \in Deletes(l) : l[j].ok}}
FailoverStart(s) ==
    /\ AtItem(s)
    /\ PathOf(subscriptions[s]) = "paused"
    /\ failoverClusters[s] # ""
    /\ PvKey(s, failoverClusters[s]) \notin DOMAIN manifestWorks

C26_OnlyStaleRestoreDeleted ==
    [][/\ DOMAIN manifestWorks \ DOMAIN manifestWorks' = DeletedKeys(log')
       /\ \A i \in Deletes(log') :
             /\ FailoverStart(log'[i].sub)
             /\ log'[i].obj = ManifestWorkName(log'[i].sub, AVRNamespace, MWTypePV)]_vars

\* C26 (amended): a bundle leaves the store only by a delete of a pass that processes
\* a paused subscription with no restore bundle on its failover target, and the bundle
\* deleted is the vrg bundle of that subscription on the home cluster of its recorded
\* decision; restore bundles and role bundles are never deleted.
C26_OnlyRecordedVrgDeleted ==
    [][/\ DOMAIN manifestWorks \ DOMAIN manifestWorks' = DeletedKeys(log')
       /\ \A i \in Deletes(log') :
             /\ FailoverStart(log'[i].sub)
             /\ log'[i].sub \in DOMAIN decisions
             /\ <<log'[i].obj, log'[i].ns>> =
                   VrgKey(log'[i].sub, decisions[log'[i].sub].HomeCluster)
             /\ Cardinality(Deletes(log')) = 1]_vars

C26_VrgDeletedRestoreIssued ==
    \E s \in Subs :
        /\ current = s
        /\ s \in DOMAIN decisions
        /\ DeletedKeys(log) = {VrgKey(s, decisions[s].HomeCluster)}
        /\ VrgKey(s, decisions[s].HomeCluster) \notin DOMAIN manifestWorks
        /\ PvKey(s, failoverClusters[s]) \in DOMAIN manifestWorks
        /\ RestoreAttempts(log) # {}

\* C27: the result of IsManifestInAppliedState is the same for every rearrangement of
\* the condition list, and the call leaves the condition list of the bundle it was
\* handed as it was, the order of its elements included.
SameForEveryOrder ==
    mwObj.called =>
        \A p \in Rearrangements(mwObj.stored) :
            \A sorted \in SortByTimestamp(p) :
                (IF Len(p) > 0 THEN AppliedOfSorted(sorted) ELSE FALSE) = applied

C27_PureAndOrderIndependent ==
    /\ SameForEveryOrder
    /\ mwObj.called => mwObj.conditions = mwObj.stored

\* C28: from some pass on, the status holds a decision for every subscription and no
\* pass writes a bundle or the status.
Quiescent ==
    /\ \A s \in Subs : s \in DOMAIN decisions
    /\ \A i \in 1..Len(log) :
          log[i].op \notin {"create", "update", "delete", "statusUpdate"}

C28_Quiescence == <>[]Quiescent

\* C29: when passes keep being run, passes without a failing call keep occurring and
\* the restore bundle is eventually reported applied with nothing degraded at its
\* latest timestamp, a subscription that is protected, paused and has a failover
\* target eventually has its pause label set to "false".
PausedWithTarget(s) ==
    /\ isSubsriptionPausedForDR(subscriptions[s].labels)
    /\ failoverClusters[s] # ""

C29_FailoverLiveness ==
    PausedWithTarget("app1") ~>
        (GetLabel(subscriptions["app1"].labels, LabelSubscriptionPause) = "false")

C29_UnpausedAfterSettledReport ==
    /\ current = "app1"
    /\ \E j \in Unpauses(log) : log[j].ok
    /\ \E i \in Evaluations(log) : log[i].ok
    /\ manifestWorks[PvKey("app1", failoverClusters["app1"])].conditions = SettledReport
    /\ GetLabel(subscriptions["app1"].labels, LabelSubscriptionPause) = "false"

====
